---- MODULE Spec2Model ----
(***************************************************************************)
(* State-machine model of the moderation pipeline of sessionprocess:       *)
(* MessageModerator (src/utils/messageModerator.ts) and UserManager        *)
(* (src/utils/userManager.ts), over an abstract record store.              *)
(*                                                                         *)
(* Texts are sequences of one-character strings.  Store writes either      *)
(* succeed or throw; every awaited write draws that outcome with \E.       *)
(***************************************************************************)
EXTENDS Integers, Sequences, FiniteSets, TLC

VARIABLES
    text,            \* argument of the latest moderateMessage call
    verdict,         \* value returned by the latest moderateMessage call
    urlLastIndex,    \* lastIndex of SPAM_PATTERNS[3], /(https?:\/\/[^\s]+)/gi
    digitsLastIndex, \* lastIndex of SPAM_PATTERNS[4], /(\b\d{10,}\b)/g
    now,             \* Date.now()
    messages,        \* ids present under messages/
    flaggedMessages, \* flaggedMessages/{id}: the object stored there
    autoPending,     \* messages pushed by handleSendMessage, flagMessage still to run
    review,          \* per admin: the reviewFlaggedMessage call in progress
    bans,            \* bans/{banId}: the object stored there
    users,           \* users/{uid}: the object stored there
    activityCount,   \* number of entries under userActivity/
    nextBanId,       \* the next key push(bansRef) hands out
    scenario,        \* per user: progress through ban, unban, unban
    lastCall,        \* the latest call that changes or checks a user's status
    initCall,        \* per user: the initializeUser call in progress
    userMessageTimes, \* the Map userMessageTimes of messageValidation.ts
    accepted,        \* per user: the times of the checkRateLimit calls that were valid
    lastRate,        \* the latest checkRateLimit call
    userRateLimits,  \* the Map userRateLimits of the Cloud Functions
    serverCall,      \* per caller: the sendMessage call of the Cloud Function
    serverSent,      \* per user: the sends that succeeded in the limiter's window
    metrics,         \* argument of the latest calculateRiskScore call
    riskScore,       \* value returned by the latest calculateRiskScore call
    flagList,        \* the list monitorFlaggedMessages handed to the admin panel
    stats,           \* getFlaggedMessagesStats of that list
    chatAdmin,       \* ChatAdmin: its messages and the latest snapshot it was handed
    messageData,     \* per message id: the object pushed to messages/
    send,            \* per tab: the handleSendMessage call in progress
    analysis,        \* the latest analyzeUserBehavior call and what it returned
    report,          \* the generateReport call in progress or last finished
    reports,         \* analyticsReports/: the reports saved, oldest first
    effectiveness    \* the latest analyzeModerationEffectiveness call and its result

modVars == <<text, verdict, urlLastIndex, digitsLastIndex>>
flagVars == <<messages, flaggedMessages, autoPending, review>>
banVars == <<bans, users, activityCount, nextBanId, scenario, lastCall>>
roleVars == <<initCall>>
\* the state of the components other than moderation, flags and bans
rateVars == <<userMessageTimes, accepted, lastRate, userRateLimits, serverCall, serverSent>>
scoreVars == <<metrics, riskScore>>
statsVars == <<flagList, stats, chatAdmin>>
sendVars == <<messageData, send>>
anaVars == <<analysis, report, reports, effectiveness>>
extVars == <<roleVars, rateVars, scoreVars, statsVars, sendVars, anaVars>>
\* the same without one group
extButRole == <<rateVars, scoreVars, statsVars, sendVars, anaVars>>
extButRate == <<roleVars, scoreVars, statsVars, sendVars, anaVars>>
extButScore == <<roleVars, rateVars, statsVars, sendVars, anaVars>>
extButStats == <<roleVars, rateVars, scoreVars, sendVars, anaVars>>
extButSend == <<roleVars, rateVars, scoreVars, statsVars, anaVars>>
extButAna == <<roleVars, rateVars, scoreVars, statsVars, sendVars>>
extButSendRate == <<roleVars, scoreVars, statsVars, anaVars>>
vars == <<text, verdict, urlLastIndex, digitsLastIndex, now, messages,
          flaggedMessages, autoPending, review, bans, users, activityCount,
          nextBanId, scenario, lastCall, extVars>>

Absent == "absent"   \* an undefined / missing field or value

\* Stored values are objects: functions from the names of the fields that
\* are present.  A path that holds nothing reads as the empty object.
EmptyObj == [k \in {} |-> Absent]
Exists(obj) == DOMAIN obj # {}
Has(obj, k) == k \in DOMAIN obj

\* update(ref, patch): the fields of patch replace those of the stored
\* object, the other stored fields stay
Update(obj, patch) == patch @@ obj

\* a field whose value may be undefined; an undefined field is not stored
Optional(k, v) == IF v = Absent THEN EmptyObj ELSE [x \in {k} |-> v]

Admins == {"admin1", "admin2"}

-----------------------------------------------------------------------------
(* Characters *)

UpperCase == <<"A","B","C","D","E","F","G","H","I","J","K","L","M",
               "N","O","P","Q","R","S","T","U","V","W","X","Y","Z">>
LowerCase == <<"a","b","c","d","e","f","g","h","i","j","k","l","m",
               "n","o","p","q","r","s","t","u","v","w","x","y","z">>
Digits == {"0","1","2","3","4","5","6","7","8","9"}

UpperSet == {UpperCase[i] : i \in DOMAIN UpperCase}
LowerSet == {LowerCase[i] : i \in DOMAIN LowerCase}

IsUpper(c) == c \in UpperSet
IsLetter(c) == c \in UpperSet \/ c \in LowerSet
IsDigit(c) == c \in Digits                              \* \d
IsWordChar(c) == IsLetter(c) \/ IsDigit(c) \/ c = "_"   \* \w
IsSpace(c) == c \in {" ", "\t", "\n", "\r"}             \* \s
IsLineEnd(c) == c \in {"\n", "\r"}                      \* what . does not match

Lower(c) == IF IsUpper(c)
            THEN LowerCase[CHOOSE i \in DOMAIN UpperCase : UpperCase[i] = c]
            ELSE c

\* String.prototype.toLowerCase
ToLowerCase(t) == [i \in 1..Len(t) |-> Lower(t[i])]

\* String.prototype.includes
Includes(t, w) ==
    \E p \in 1..(Len(t) - Len(w) + 1) : \A j \in 1..Len(w) : t[p + j - 1] = w[j]

-----------------------------------------------------------------------------
(* Word lists and literals of the patterns *)

F_ok == <<"o", "k">>
F_space == <<" ">>
F_kys == <<"K", "y", "S">>
F_worthless == <<"y", "o", "u", " ", "a", "r", "e", " ", "w", "o", "r", "t", "h", "l", "e", "s", "s">>
F_severe == <<"E", "x", "t", "r", "e", "m", "e", " ", "P", "r", "o", "f", "a", "n", "i", "t", "y", " ", "w", "o", "u", "l", "d", " ", "g", "o", " ", "h", "e", "r", "e">>
F_hate == <<"h", "a", "t", "e">>
F_damn == <<"D", "a", "m", "n">>
F_url == <<"h", "t", "t", "p", ":", "/", "/", "a">>
F_digits == <<"1", "2", "3", "4", "5", "6", "7", "8", "9", "0">>
F_run == <<"a", "a", "a", "a", "a", "a">>
F_again == <<"n", "o", " ", "n", "o", " ", "n", "o", " ", "n", "o", " ">>
W_severe == <<"e", "x", "t", "r", "e", "m", "e", " ", "p", "r", "o", "f", "a", "n", "i", "t", "y", " ", "w", "o", "u", "l", "d", " ", "g", "o", " ", "h", "e", "r", "e">>
W_damn == <<"d", "a", "m", "n">>
W_hell == <<"h", "e", "l", "l">>
W_crap == <<"c", "r", "a", "p">>
W_stupid == <<"s", "t", "u", "p", "i", "d">>
W_idiot == <<"i", "d", "i", "o", "t">>
W_moron == <<"m", "o", "r", "o", "n">>
W_dumb == <<"d", "u", "m", "b">>
W_hate == <<"h", "a", "t", "e">>
W_kill == <<"k", "i", "l", "l">>
W_die == <<"d", "i", "e">>
W_trash == <<"t", "r", "a", "s", "h">>
W_garbage == <<"g", "a", "r", "b", "a", "g", "e">>
W_worthless == <<"w", "o", "r", "t", "h", "l", "e", "s", "s">>
W_you == <<"y", "o", "u">>
W_should == <<"s", "h", "o", "u", "l", "d">>
W_need_to == <<"n", "e", "e", "d", " ", "t", "o">>
W_kill_yourself == <<"k", "i", "l", "l", " ", "y", "o", "u", "r", "s", "e", "l", "f">>
W_kys == <<"k", "y", "s">>
W_go == <<"g", "o">>
W_yourself == <<"y", "o", "u", "r", "s", "e", "l", "f">>
W_nobody == <<"n", "o", "b", "o", "d", "y">>
W_likes == <<"l", "i", "k", "e", "s">>
W_are == <<"a", "r", "e">>
W_pathetic == <<"p", "a", "t", "h", "e", "t", "i", "c">>
W_disgusting == <<"d", "i", "s", "g", "u", "s", "t", "i", "n", "g">>
W_http == <<"h", "t", "t", "p">>
W_scheme == <<":", "/", "/">>
W_https == <<"h", "t", "t", "p", "s">>

LengthCeiling == 800

\* an over-length text: one long word, no run of six equal characters
F_long == [i \in 1..(LengthCeiling + 1) |-> IF i % 2 = 1 THEN "x" ELSE "1"]

PROFANITY_LEVELS ==
    [ mild     |-> <<W_damn, W_hell, W_crap, W_stupid, W_idiot, W_moron, W_dumb>>,
      moderate |-> <<W_hate, W_kill, W_die, W_trash, W_garbage, W_worthless>>,
      severe   |-> <<W_severe>> ]

-----------------------------------------------------------------------------
(* Regular expressions without state (flag i only) *)

Lit(alts) == [ws |-> FALSE, alts |-> alts]   \* (a|b|...)
Ws == [ws |-> TRUE, alts |-> {}]             \* \s+

\* literal w at position p of t, ignoring case
LitAt(t, w, p) ==
    /\ p + Len(w) - 1 <= Len(t)
    /\ \A j \in 1..Len(w) : Lower(t[p + j - 1]) = Lower(w[j])

RECURSIVE MatchAt(_, _, _, _)
\* elements i.. of pat match t from position p on
MatchAt(t, pat, i, p) ==
    IF i > Len(pat) THEN TRUE
    ELSE IF pat[i].ws
    THEN \E k \in 1..(Len(t) - p + 1) :
            /\ \A j \in p..(p + k - 1) : IsSpace(t[j])
            /\ MatchAt(t, pat, i + 1, p + k)
    ELSE \E w \in pat[i].alts : LitAt(t, w, p) /\ MatchAt(t, pat, i + 1, p + Len(w))

\* RegExp.prototype.test of a pattern without the g flag
RegexTest(pat, t) == \E p \in 1..Len(t) : MatchAt(t, pat, 1, p)

HARASSMENT_PATTERNS ==
    << <<Lit({W_you}), Ws, Lit({W_should, W_need_to}), Ws, Lit({W_die, W_kill_yourself})>>,
       <<Lit({W_kys})>>,
       <<Lit({W_go}), Ws, Lit({W_kill}), Ws, Lit({W_yourself})>>,
       <<Lit({W_nobody}), Ws, Lit({W_likes}), Ws, Lit({W_you})>>,
       <<Lit({W_you}), Ws, Lit({W_are}), Ws, Lit({W_worthless, W_pathetic, W_disgusting})>> >>

\* /(.)\1{5,}/i
RepeatedChars(t) ==
    \E p \in 1..(Len(t) - 5) :
        /\ ~IsLineEnd(t[p])
        /\ \A k \in 1..5 : Lower(t[p + k]) = Lower(t[p])

\* /^[A-Z\s!]{15,}$/i
AllCaps(t) ==
    /\ Len(t) >= 15
    /\ \A i \in 1..Len(t) : IsLetter(t[i]) \/ IsSpace(t[i]) \/ t[i] = "!"

\* \b followed by \w
WordStart(t, p) == IsWordChar(t[p]) /\ (p = 1 \/ ~IsWordChar(t[p - 1]))

\* \w followed by \b
WordEnd(t, e) == IsWordChar(t[e]) /\ (e = Len(t) \/ ~IsWordChar(t[e + 1]))

\* /(\b\w+\b.*?){3,}\1/i : the group's last iteration t[p..q] starts at the
\* third word or later, holds a whole word and is repeated right after q
RepeatedWords(t) ==
    \E p \in 1..Len(t) :
        /\ WordStart(t, p)
        /\ Cardinality({s \in 1..(p - 1) : WordStart(t, s)}) >= 2
        /\ \E q \in p..Len(t) :
            /\ \E e \in p..q : WordEnd(t, e) /\ \A j \in p..e : IsWordChar(t[j])
            /\ \A j \in p..q : ~IsLineEnd(t[j])
            /\ 2 * q - p + 1 <= Len(t)
            /\ \A k \in 0..(q - p) : Lower(t[q + 1 + k]) = Lower(t[p + k])

-----------------------------------------------------------------------------
(* Regular expressions with the g flag: test() reads and writes lastIndex *)

\* end of the run of non-space characters that holds position p
NonSpaceEnd(t, p) ==
    LET ends == {e \in p..Len(t) : e = Len(t) \/ IsSpace(t[e + 1])}
    IN CHOOSE e \in ends : \A other \in ends : e <= other

\* /(https?:\/\/[^\s]+)/gi : <<start, end>> of the match that starts at p
UrlMatchAt(t, p) ==
    LET rest == IF LitAt(t, W_https, p) /\ LitAt(t, W_scheme, p + 5) THEN p + 8
                ELSE IF LitAt(t, W_http, p) /\ LitAt(t, W_scheme, p + 4) THEN p + 7
                ELSE 0
    IN IF rest > 0 /\ rest <= Len(t) /\ ~IsSpace(t[rest])
       THEN {<<p, NonSpaceEnd(t, rest)>>}
       ELSE {}

UrlMatches(t) == UNION {UrlMatchAt(t, p) : p \in 1..Len(t)}

\* end of the run of digits that holds position p
DigitsEnd(t, p) ==
    LET ends == {e \in p..Len(t) : e = Len(t) \/ ~IsDigit(t[e + 1])}
    IN CHOOSE e \in ends : \A other \in ends : e <= other

\* /(\b\d{10,}\b)/g : <<start, end>> of the match that starts at p
DigitsMatchAt(t, p) ==
    IF WordStart(t, p) /\ IsDigit(t[p])
    THEN LET e == DigitsEnd(t, p)
         IN IF e - p + 1 >= 10 /\ WordEnd(t, e) THEN {<<p, e>>} ELSE {}
    ELSE {}

DigitsMatches(t) == UNION {DigitsMatchAt(t, p) : p \in 1..Len(t)}

\* RegExp.prototype.test of a global pattern, given all its matches in t:
\* the search starts at lastIndex, a hit leaves lastIndex at the end of the
\* match, a miss resets it to 0
GlobalTest(matches, t, lastIndex) ==
    LET from == {m \in matches : m[1] >= lastIndex + 1}
    IN IF lastIndex > Len(t) \/ from = {}
       THEN [found |-> FALSE, lastIndex |-> 0]
       ELSE LET m == CHOOSE x \in from : \A y \in from : x[1] <= y[1]
            IN [found |-> TRUE, lastIndex |-> m[2]]

-----------------------------------------------------------------------------
(* MessageModerator.moderateMessage *)

Verdict(flag, del, reason, sev) ==
    [shouldFlag |-> flag, shouldDelete |-> del, flagReason |-> reason, severity |-> sev]

AnyWord(words, t) == \E i \in DOMAIN words : Includes(t, ToLowerCase(words[i]))

MatchesSevere(t) == AnyWord(PROFANITY_LEVELS.severe, ToLowerCase(t))
MatchesHarassment(t) == \E i \in DOMAIN HARASSMENT_PATTERNS : RegexTest(HARASSMENT_PATTERNS[i], t)
MatchesModerate(t) == AnyWord(PROFANITY_LEVELS.moderate, ToLowerCase(t))
MatchesMild(t) == AnyWord(PROFANITY_LEVELS.mild, ToLowerCase(t))

-----------------------------------------------------------------------------
(* Inputs of moderateMessage: one fragment, or two joined *)

Fragments == {F_ok, F_space, F_kys, F_worthless, F_severe, F_hate, F_damn,
              F_url, F_digits, F_run, F_again, F_long}

Texts == {<<>>} \cup Fragments \cup {a \o b : a \in Fragments \ {F_long}, b \in Fragments}

\* what each pattern finds in each text; the patterns and the texts are
\* fixed, so this is computed once
Scan == [t \in Texts |->
            [ severe     |-> MatchesSevere(t),
              harassment |-> MatchesHarassment(t),
              moderate   |-> MatchesModerate(t),
              mild       |-> MatchesMild(t),
              spamPlain  |-> RepeatedChars(t) \/ AllCaps(t) \/ RepeatedWords(t),
              urls       |-> UrlMatches(t),
              digits     |-> DigitsMatches(t) ]]

-----------------------------------------------------------------------------
\* the loop over SPAM_PATTERNS: result and the lastIndex of the two global
\* patterns after it; a pattern is tested only if none before it matched
SpamLoop(t, urlLI, digLI) ==
    IF Scan[t].spamPlain
    THEN [found |-> TRUE, url |-> urlLI, digits |-> digLI]
    ELSE LET u == GlobalTest(Scan[t].urls, t, urlLI)
         IN IF u.found
            THEN [found |-> TRUE, url |-> u.lastIndex, digits |-> digLI]
            ELSE LET d == GlobalTest(Scan[t].digits, t, digLI)
                 IN [found |-> d.found, url |-> u.lastIndex, digits |-> d.lastIndex]

\* moderateMessage with the moderate-profanity check moved ahead of the
\* harassment check
moderateMessage_ModerateFirst(message, urlLI, digLI) ==
    LET same(v) == [result |-> v, url |-> urlLI, digits |-> digLI]
    IN IF Scan[message].severe
       THEN same(Verdict(TRUE, TRUE, "profanity", "high"))
       ELSE IF Scan[message].moderate
       THEN same(Verdict(TRUE, FALSE, "profanity", "medium"))
       ELSE IF Scan[message].harassment
       THEN same(Verdict(TRUE, TRUE, "harassment", "high"))
       ELSE IF Scan[message].mild
       THEN same(Verdict(TRUE, FALSE, "profanity", "low"))
       ELSE LET s == SpamLoop(message, urlLI, digLI)
            IN IF s.found
               THEN [result |-> Verdict(TRUE, FALSE, "spam", "medium"),
                     url |-> s.url, digits |-> s.digits]
               ELSE IF Len(message) > LengthCeiling
               THEN [result |-> Verdict(TRUE, FALSE, "inappropriate", "low"),
                     url |-> s.url, digits |-> s.digits]
               ELSE [result |-> Verdict(FALSE, FALSE, Absent, Absent),
                     url |-> s.url, digits |-> s.digits]

\* moderateMessage(message): [result, url, digits], the returned verdict and
\* the lastIndex values it leaves behind
moderateMessage(message, urlLI, digLI) ==
    LET same(v) == [result |-> v, url |-> urlLI, digits |-> digLI]
    IN IF Scan[message].severe
       THEN same(Verdict(TRUE, TRUE, "profanity", "high"))
       ELSE IF Scan[message].harassment
       THEN same(Verdict(TRUE, TRUE, "harassment", "high"))
       ELSE IF Scan[message].moderate
       THEN same(Verdict(TRUE, FALSE, "profanity", "medium"))
       ELSE IF Scan[message].mild
       THEN same(Verdict(TRUE, FALSE, "profanity", "low"))
       ELSE LET s == SpamLoop(message, urlLI, digLI)
            IN IF s.found
               THEN [result |-> Verdict(TRUE, FALSE, "spam", "medium"),
                     url |-> s.url, digits |-> s.digits]
               ELSE IF Len(message) > LengthCeiling
               THEN [result |-> Verdict(TRUE, FALSE, "inappropriate", "low"),
                     url |-> s.url, digits |-> s.digits]
               ELSE [result |-> Verdict(FALSE, FALSE, Absent, Absent),
                     url |-> s.url, digits |-> s.digits]

-----------------------------------------------------------------------------
(* The moderation state machine: calls of moderateMessage on one instance *)

\* moderateMessage("") returns this and leaves both lastIndex at 0
NoVerdict == Verdict(FALSE, FALSE, Absent, Absent)

InitMod ==
    /\ text = <<>>
    /\ verdict = NoVerdict
    /\ urlLastIndex = 0
    /\ digitsLastIndex = 0

\* one call moderateMessage(t, _, _)
Moderate(t) ==
    LET r == moderateMessage(t, urlLastIndex, digitsLastIndex)
    IN /\ text' = t
       /\ verdict' = r.result
       /\ urlLastIndex' = r.url
       /\ digitsLastIndex' = r.digits
       /\ UNCHANGED <<now, flagVars, banVars, extVars>>

NextMod == \E t \in Texts : Moderate(t)

-----------------------------------------------------------------------------
(* The clock *)

MaxTime == 1

\* time passes between two store operations
Tick == now < MaxTime /\ now' = now + 1 /\ UNCHANGED <<modVars, flagVars, banVars, extVars>>

-----------------------------------------------------------------------------
(* The flag store: MessageModerator.flagMessage, deleteMessage and         *)
(* reviewFlaggedMessage, called by handleSendMessage, handleManualFlag and *)
(* handleReviewFlaggedMessage                                              *)

NumMessages == 1
MsgIds == 1..NumMessages

ReviewActions == {"approved", "deleted", "edited"}

\* reason and severity of the verdicts that flag without deleting
AutoFlags == { <<"profanity", "medium">>, <<"profanity", "low">>,
               <<"spam", "medium">>, <<"inappropriate", "low">> }

\* the object flagMessage writes with update()
FlagPatch(id, flagReason, severity, flaggedBy, autoFlagged) ==
    [ id |-> id, flagReason |-> flagReason, flaggedAt |-> now,
      autoFlagged |-> autoFlagged, severity |-> severity, reviewed |-> FALSE ]
    @@ Optional("flaggedBy", flaggedBy)

\* flagMessage: flaggedMessages after the call; ok is whether update() resolved
flagMessage(id, flagReason, severity, flaggedBy, autoFlagged, ok) ==
    IF ok
    THEN [flaggedMessages EXCEPT
            ![id] = Update(@, FlagPatch(id, flagReason, severity, flaggedBy, autoFlagged))]
    ELSE flaggedMessages

\* the object reviewFlaggedMessage writes with update()
ReviewPatch(reviewerId, action) ==
    [reviewed |-> TRUE, reviewedBy |-> reviewerId, reviewedAt |-> now, action |-> action]

\* deleteMessage: messages after the call; ok is whether remove() resolved
deleteMessage(id, ok) == IF ok THEN messages \ {id} ELSE messages

Idle == [pc |-> "idle"]

InitFlag ==
    /\ messages = MsgIds
    /\ flaggedMessages = [id \in MsgIds |-> EmptyObj]
    /\ autoPending = MsgIds
    /\ review = [r \in Admins |-> Idle]

\* handleSendMessage, Chatroom.tsx 121-132: the flagMessage call that follows
\* the push of a message whose verdict is shouldFlag
AutoFlag(id, f, ok) ==
    /\ id \in autoPending
    /\ autoPending' = autoPending \ {id}
    /\ flaggedMessages' = flagMessage(id, f[1], f[2], Absent, TRUE, ok)
    /\ UNCHANGED <<messages, review, now, modVars, banVars, extVars>>

\* handleManualFlag: an admin flags a message the message monitor shows
ManualFlag(id, admin, ok) ==
    /\ id \in messages
    /\ flaggedMessages' = flagMessage(id, "inappropriate", "medium", admin, FALSE, ok)
    /\ UNCHANGED <<messages, autoPending, review, now, modVars, banVars, extVars>>

\* reviewFlaggedMessage up to the end of its first await: update() of the
\* flag record.  If it throws, the catch returns false.
ReviewUpdate(r, id, action, ok) ==
    /\ review[r].pc = "idle"
    /\ LET call == [ id |-> id, action |-> action,
                     hadFlag |-> Exists(flaggedMessages[id]),
                     hadMessage |-> id \in messages,
                     overlap |-> \E o \in Admins \ {r} :
                                    review[o].pc = "updated" /\ review[o].id = id ]
       IN IF ok
          THEN /\ flaggedMessages' =
                    [flaggedMessages EXCEPT ![id] = Update(@, ReviewPatch(r, action))]
               /\ review' = [review EXCEPT ![r] = [pc |-> "updated"] @@ call]
          ELSE /\ flaggedMessages' = flaggedMessages
               /\ review' = [review EXCEPT ![r] = [pc |-> "done", result |-> FALSE] @@ call]
    /\ UNCHANGED <<messages, autoPending, now, modVars, banVars, extVars>>

\* handleReviewFlaggedMessage: Approve or Delete clicked on a flag that the
\* admin panel lists, so the record exists
HandleReview(r, id, action, ok) ==
    /\ Exists(flaggedMessages[id])
    /\ ReviewUpdate(r, id, action, ok)

\* reviewFlaggedMessage after the update: on 'deleted' it awaits
\* deleteMessage and drops its result; it returns true
ReviewFinish(r, delOk) ==
    /\ review[r].pc = "updated"
    /\ messages' = IF review[r].action = "deleted"
                   THEN deleteMessage(review[r].id, delOk)
                   ELSE messages
    /\ review' = [review EXCEPT ![r] = [pc |-> "done", result |-> TRUE] @@ @]
    /\ UNCHANGED <<flaggedMessages, autoPending, now, modVars, banVars, extVars>>

\* handleReviewFlaggedMessage takes the result and shows the alert
ReviewAck(r) ==
    /\ review[r].pc = "done"
    /\ review' = [review EXCEPT ![r] = Idle]
    /\ UNCHANGED <<messages, flaggedMessages, autoPending, now, modVars, banVars, extVars>>

NextFlag ==
    \/ \E id \in MsgIds, f \in AutoFlags, ok \in BOOLEAN : AutoFlag(id, f, ok)
    \/ \E id \in MsgIds, a \in Admins, ok \in BOOLEAN : ManualFlag(id, a, ok)
    \/ \E r \in Admins, id \in MsgIds, action \in ReviewActions, ok \in BOOLEAN :
         HandleReview(r, id, action, ok)
    \/ \E r \in Admins, delOk \in BOOLEAN : ReviewFinish(r, delOk)
    \/ \E r \in Admins : ReviewAck(r)
    \/ Tick

\* the same with reviewFlaggedMessage called on any message id
NextReviewApi ==
    \/ \E id \in MsgIds, f \in AutoFlags, ok \in BOOLEAN : AutoFlag(id, f, ok)
    \/ \E id \in MsgIds, a \in Admins, ok \in BOOLEAN : ManualFlag(id, a, ok)
    \/ \E r \in Admins, id \in MsgIds, action \in ReviewActions, ok \in BOOLEAN :
         ReviewUpdate(r, id, action, ok)
    \/ \E r \in Admins, delOk \in BOOLEAN : ReviewFinish(r, delOk)
    \/ \E r \in Admins : ReviewAck(r)
    \/ Tick

-----------------------------------------------------------------------------
(* Bans: UserManager.banUser and unbanUser *)

MaxBans == 2
BanIds == 1..MaxBans
UserIds == {"u1", "u2"}

HourMs == 3600000

\* the type and duration arguments of banUser; duration may be omitted
BanArgs == { [type |-> "permanent"],
             [type |-> "permanent", duration |-> 1],
             [type |-> "temporary"],
             [type |-> "temporary", duration |-> 0],
             [type |-> "temporary", duration |-> 1] }

\* the banRecord object banUser builds
BanRecord(banId, userId, bannedBy, args) ==
    [ id |-> banId, userId |-> userId, bannedBy |-> bannedBy, reason |-> "reason",
      type |-> args.type, startDate |-> now, isActive |-> TRUE ]
    @@ (IF args.type = "temporary" /\ Has(args, "duration") /\ args.duration # 0
        THEN [endDate |-> now + args.duration * HourMs]
        ELSE EmptyObj)

\* logActivity: one entry pushed to userActivity; a failed push is swallowed
logActivity(count, ok) == IF ok THEN count + 1 ELSE count

\* banUser that removes the ban record again when the profile write fails
banUser_RollsBack(userId, bannedBy, args, failAt) ==
    LET banId == nextBanId
        banRecord == BanRecord(banId, userId, bannedBy, args)
        bans1 == [bans EXCEPT ![banId] = Update(@, banRecord)]
        users1 == [users EXCEPT ![userId] =
                     Update(@, [ status |-> "banned",
                                 banHistory |-> (banId :> banRecord) @@ @.banHistory ])]
    IN IF failAt = 1
       THEN [bans |-> bans, users |-> users, activity |-> activityCount, result |-> FALSE]
       ELSE IF failAt = 2
       THEN [bans |-> bans, users |-> users, activity |-> activityCount, result |-> FALSE]
       ELSE [bans |-> bans1, users |-> users1,
             activity |-> logActivity(activityCount, failAt # 3), result |-> TRUE]

\* banUser: the store after the call and the value returned.  failAt is the
\* awaited store call that throws: 1 the write of bans/{banId}, 2 the write
\* of users/{userId}, 3 the push of logActivity, 0 none.
banUser(userId, bannedBy, args, failAt) ==
    LET banId == nextBanId
        banRecord == BanRecord(banId, userId, bannedBy, args)
        bans1 == [bans EXCEPT ![banId] = Update(@, banRecord)]
        users1 == [users EXCEPT ![userId] =
                     Update(@, [ status |-> "banned",
                                 banHistory |-> (banId :> banRecord) @@ @.banHistory ])]
    IN IF failAt = 1
       THEN [bans |-> bans, users |-> users, activity |-> activityCount, result |-> FALSE]
       ELSE IF failAt = 2
       THEN [bans |-> bans1, users |-> users, activity |-> activityCount, result |-> FALSE]
       ELSE [bans |-> bans1, users |-> users1,
             activity |-> logActivity(activityCount, failAt # 3), result |-> TRUE]

\* the find() over Object.entries(bans) that ignores isActive
FindActiveBan_AnyBan(bs, userId) ==
    LET found == {b \in BanIds : Exists(bs[b]) /\ bs[b].userId = userId}
    IN IF found = {} THEN 0 ELSE CHOOSE b \in found : \A c \in found : b <= c

\* Object.entries(bans).find(ban.userId === userId && ban.isActive): the
\* first such key, 0 if there is none
FindActiveBan(bs, userId) ==
    LET found == {b \in BanIds : Exists(bs[b]) /\ bs[b].userId = userId /\ bs[b].isActive}
    IN IF found = {} THEN 0 ELSE CHOOSE b \in found : \A c \in found : b <= c

\* unbanUser: the store after the call and the value returned.  failAt is
\* the awaited store call that throws: 1 the read of bans, 2 the write of
\* bans/{banId}, 3 the write of users/{userId}, 4 the push of logActivity.
unbanUser(userId, revokedBy, failAt) ==
    LET banId == FindActiveBan(bans, userId)
        same == [bans |-> bans, users |-> users, activity |-> activityCount,
                 result |-> FALSE]
    IN IF failAt = 1 \/ banId = 0 \/ failAt = 2
       THEN same
       ELSE LET bans1 == [bans EXCEPT ![banId] =
                            Update(@, [ isActive |-> FALSE, revokedBy |-> revokedBy,
                                        revokedAt |-> now, revokeReason |-> "reason" ])]
                users1 == [users EXCEPT ![userId] = Update(@, [status |-> "active"])]
            IN IF failAt = 3
               THEN [bans |-> bans1, users |-> users, activity |-> activityCount,
                     result |-> FALSE]
               ELSE [bans |-> bans1, users |-> users1,
                     activity |-> logActivity(activityCount, failAt # 4),
                     result |-> TRUE]

\* History of the calls made for one user, kept while they follow
\* banUser(permanent) = true, unbanUser = true, unbanUser: step counts the
\* calls so far, -1 once the calls have left that sequence; result and
\* changed describe the latest call of the sequence.
ScenarioStart == [step |-> 0, result |-> FALSE, changed |-> FALSE]

\* a call of banUser, unbanUser, suspendUser or canUserPerformAction as it
\* ended: what it was given, what it returned, the key it used under bans/,
\* users/{userId} as it was before, and the number of calls so far
StatusCall(op, userId, arg, failAt, result, banId) ==
    [op |-> op, userId |-> userId, arg |-> arg, failAt |-> failAt, result |-> result,
     banId |-> banId, userBefore |-> users[userId], calls |-> lastCall.calls + 1]

NoStatusCall ==
    [op |-> "none", userId |-> Absent, arg |-> Absent, failAt |-> 0, result |-> FALSE,
     banId |-> 0, userBefore |-> EmptyObj, calls |-> 0]

ScenarioNext(sc, op, type, result, changed) ==
    LET to(n) == [step |-> n, result |-> result, changed |-> changed]
    IN IF sc.step = 0 /\ op = "ban" /\ type = "permanent" /\ result THEN to(1)
       ELSE IF sc.step = 1 /\ op = "unban" /\ result THEN to(2)
       ELSE IF sc.step = 2 /\ op = "unban" THEN to(3)
       ELSE [step |-> -1, result |-> FALSE, changed |-> FALSE]

InitBan ==
    /\ bans = [b \in BanIds |-> EmptyObj]
    /\ users = [u \in UserIds |-> [status |-> "active", banHistory |-> EmptyObj]]
    /\ activityCount = 0
    /\ nextBanId = 1
    /\ scenario = [u \in UserIds |-> ScenarioStart]
    /\ lastCall = NoStatusCall

BanUser(userId, bannedBy, args, failAt) ==
    /\ nextBanId <= MaxBans
    /\ LET r == banUser(userId, bannedBy, args, failAt)
       IN /\ bans' = r.bans
          /\ users' = r.users
          /\ activityCount' = r.activity
          /\ nextBanId' = nextBanId + 1
          /\ scenario' = [scenario EXCEPT ![userId] =
                ScenarioNext(@, "ban", args.type, r.result,
                             <<r.bans, r.users, r.activity>> # <<bans, users, activityCount>>)]
    /\ UNCHANGED <<now, lastCall, modVars, flagVars, extVars>>

UnbanUser(userId, revokedBy, failAt) ==
    LET r == unbanUser(userId, revokedBy, failAt)
    IN /\ bans' = r.bans
       /\ users' = r.users
       /\ activityCount' = r.activity
       /\ nextBanId' = nextBanId
       /\ scenario' = [scenario EXCEPT ![userId] =
             ScenarioNext(@, "unban", Absent, r.result,
                          <<r.bans, r.users, r.activity>> # <<bans, users, activityCount>>)]
       /\ UNCHANGED <<now, lastCall, modVars, flagVars, extVars>>

\* the admin who bans and unbans
BanAdmins == {"admin1"}

NextBan ==
    \/ \E u \in UserIds, a \in BanAdmins, args \in BanArgs, failAt \in 0..3 :
         BanUser(u, a, args, failAt)
    \/ \E u \in UserIds, a \in BanAdmins, failAt \in 0..4 : UnbanUser(u, a, failAt)

-----------------------------------------------------------------------------
(* Roles: UserManager.initializeUser and updateUserRole *)

Roles == {"user", "moderator", "admin"}

defaultPermissions ==
    [ canSendMessages |-> TRUE, canDeleteOwnMessages |-> TRUE,
      canReportMessages |-> TRUE, canAccessAdminPanel |-> FALSE,
      canModerateMessages |-> FALSE, canBanUsers |-> FALSE,
      canManageRoles |-> FALSE ]

rolePermissions ==
    [ role \in Roles |->
        CASE role = "user" -> defaultPermissions
          [] role = "moderator" ->
               [defaultPermissions EXCEPT !.canModerateMessages = TRUE,
                                          !.canAccessAdminPanel = TRUE]
          [] role = "admin" ->
               [ canSendMessages |-> TRUE, canDeleteOwnMessages |-> TRUE,
                 canReportMessages |-> TRUE, canAccessAdminPanel |-> TRUE,
                 canModerateMessages |-> TRUE, canBanUsers |-> TRUE,
                 canManageRoles |-> TRUE ] ]

\* the email and displayName of the signed-in user; displayName may be unset
Emails == {"admin@sessionprocess.com", "u@example.com"}
DisplayNames == {Absent, "name"}

isAdminEmail(email) ==
    email \in {"admin@sessionprocess.com", "moderator@sessionprocess.com"}

\* the newUser object initializeUser writes when the snapshot holds nothing;
\* the empty banHistory array stores nothing
NewUser(uid, email, displayName) ==
    [ uid |-> uid, email |-> email,
      role |-> IF isAdminEmail(email) THEN "admin" ELSE "user",
      status |-> "active", createdAt |-> now, lastActive |-> now,
      messageCount |-> 0, flagCount |-> 0, warningCount |-> 0,
      banHistory |-> EmptyObj,
      permissions |-> rolePermissions[IF isAdminEmail(email) THEN "admin" ELSE "user"] ]
    @@ Optional("displayName", displayName)

\* the values initializeUser writes when the snapshot holds a profile
LastActivePatch(displayName, snapshot) ==
    [lastActive |-> now]
    @@ Optional("displayName",
                IF displayName # Absent THEN displayName
                ELSE IF Has(snapshot, "displayName") THEN snapshot.displayName
                ELSE Absent)

NoCall == [pc |-> "idle"]

\* initializeUser, after its get(): the write it makes depends on the
\* snapshot it read.  failAt is the awaited store call that throws: 1 the
\* update of users/{uid}, 2 the push of logActivity, 0 none; every error is
\* caught inside initializeUser.
initializeUser(uid, call, failAt) ==
    LET patch == IF Exists(call.snapshot)
                 THEN LastActivePatch(call.displayName, call.snapshot)
                 ELSE NewUser(uid, call.email, call.displayName)
    IN IF failAt = 1
       THEN [users |-> users, activity |-> activityCount]
       ELSE [users |-> [users EXCEPT ![uid] = Update(@, patch)],
             activity |-> logActivity(activityCount, failAt # 2)]

\* updateUserRole that writes the role and leaves the stored permissions
updateUserRole_RoleOnly(uid, newRole, updatedBy, failAt) ==
    IF failAt = 1
    THEN [users |-> users, activity |-> activityCount, result |-> FALSE]
    ELSE [users |-> [users EXCEPT ![uid] = Update(@, [role |-> newRole])],
          activity |-> logActivity(activityCount, failAt # 2), result |-> TRUE]

\* updateUserRole: the store after the call and the value returned.  failAt
\* is the awaited store call that throws: 1 the update of users/{uid}, 2 the
\* push of logActivity, 0 none.
updateUserRole(uid, newRole, updatedBy, failAt) ==
    LET newPermissions == rolePermissions[newRole]
    IN IF failAt = 1
       THEN [users |-> users, activity |-> activityCount, result |-> FALSE]
       ELSE [users |-> [users EXCEPT ![uid] =
                          Update(@, [role |-> newRole, permissions |-> newPermissions])],
             activity |-> logActivity(activityCount, failAt # 2), result |-> TRUE]

MaxActivity == 3

InitRole == initCall = [u \in UserIds |-> NoCall]

\* a store in which nobody has signed in yet
InitNoProfiles ==
    /\ bans = [b \in BanIds |-> EmptyObj]
    /\ users = [u \in UserIds |-> EmptyObj]
    /\ activityCount = 0
    /\ nextBanId = 1
    /\ scenario = [u \in UserIds |-> ScenarioStart]
    /\ lastCall = NoStatusCall

\* Chatroom mounts: initializeUser starts and awaits get(users/{uid}); a
\* failed read is caught and ends the call
InitializeUserGet(uid, email, displayName, ok) ==
    /\ initCall[uid].pc = "idle"
    /\ activityCount < MaxActivity
    /\ initCall' = [initCall EXCEPT ![uid] =
                      IF ok THEN [pc |-> "got", email |-> email,
                                  displayName |-> displayName,
                                  snapshot |-> users[uid]]
                      ELSE NoCall]
    /\ UNCHANGED <<now, modVars, flagVars, banVars, extButRole>>

\* initializeUser resumes with its snapshot and writes
InitializeUserUpdate(uid, failAt) ==
    /\ initCall[uid].pc = "got"
    /\ LET r == initializeUser(uid, initCall[uid], failAt)
       IN /\ users' = r.users
          /\ activityCount' = r.activity
    /\ initCall' = [initCall EXCEPT ![uid] = NoCall]
    /\ UNCHANGED <<now, modVars, flagVars, bans, nextBanId, scenario, lastCall, extButRole>>

UpdateUserRole(uid, newRole, updatedBy, failAt) ==
    /\ activityCount < MaxActivity
    /\ LET r == updateUserRole(uid, newRole, updatedBy, failAt)
       IN /\ users' = r.users
          /\ activityCount' = r.activity
    /\ UNCHANGED <<now, modVars, flagVars, bans, nextBanId, scenario, lastCall, extVars>>

\* the user who signs in and whose role is changed
RoleUsers == {"u1"}

NextRole ==
    \/ \E u \in RoleUsers, e \in Emails, d \in DisplayNames, ok \in BOOLEAN :
         InitializeUserGet(u, e, d, ok)
    \/ \E u \in RoleUsers, failAt \in 0..2 : InitializeUserUpdate(u, failAt)
    \/ \E u \in RoleUsers, r \in Roles, a \in BanAdmins, failAt \in 0..2 :
         UpdateUserRole(u, r, a, failAt)
    \/ Tick

-----------------------------------------------------------------------------
(* The client rate limiter: checkRateLimit of messageValidation.ts *)

timeWindow == 60000
maxMessages == 10

\* a key the Map userMessageTimes does not hold
NoTimes == <<-1>>

\* checkRateLimit that stores the timestamp before it counts
checkRateLimit_RecordFirst(times, userId) ==
    LET messageTimes == IF times[userId] = NoTimes THEN <<>> ELSE times[userId]
        recentTimes == SelectSeq(messageTimes, LAMBDA time : now - time < timeWindow)
    IN [ times |-> [times EXCEPT ![userId] = Append(recentTimes, now)],
         isValid |-> Len(recentTimes) < maxMessages ]

\* checkRateLimit(userId): the Map after the call and the isValid returned
checkRateLimit(times, userId) ==
    LET times1 == IF times[userId] = NoTimes
                  THEN [times EXCEPT ![userId] = <<>>]
                  ELSE times
        messageTimes == times1[userId]
        recentTimes == SelectSeq(messageTimes, LAMBDA time : now - time < timeWindow)
    IN IF Len(recentTimes) >= maxMessages
       THEN [times |-> times1, isValid |-> FALSE]
       ELSE [times |-> [times1 EXCEPT ![userId] = Append(recentTimes, now)],
             isValid |-> TRUE]

\* the sends that passed the rate limiter so far, all users together
MaxSends == 12
RECURSIVE SumLen(_, _)
SumLen(f, S) ==
    IF S = {} THEN 0
    ELSE LET u == CHOOSE x \in S : TRUE IN Len(f[u]) + SumLen(f, S \ {u})
SentSoFar == SumLen(accepted, UserIds)

\* the requests the Cloud Function serves at a time
Callers == {"c1", "c2"}

serverVars == <<userRateLimits, serverCall, serverSent>>

InitRate ==
    /\ userMessageTimes = [u \in UserIds |-> NoTimes]
    /\ accepted = [u \in UserIds |-> <<>>]
    /\ lastRate = [userId |-> Absent, isValid |-> TRUE, at |-> 0, before |-> 0,
                   refused |-> FALSE]
    /\ userRateLimits = [u \in UserIds |-> EmptyObj]
    /\ serverCall = [c \in Callers |-> [pc |-> "idle"]]
    /\ serverSent = [u \in UserIds |-> 0]

\* handleSendMessage reaches its rate limiting check; accepted keeps the
\* times of the calls that returned isValid = true, lastRate the latest
\* call, its time and the number of earlier accepted calls of its user
CheckRateLimit(userId) ==
    LET r == checkRateLimit(userMessageTimes, userId)
    IN /\ SentSoFar < MaxSends
       /\ userMessageTimes' = r.times
       /\ accepted' = IF r.isValid
                      THEN [accepted EXCEPT ![userId] = Append(@, now)]
                      ELSE accepted
       /\ lastRate' = [userId |-> userId, isValid |-> r.isValid, at |-> now,
                       before |-> Len(accepted[userId]), refused |-> FALSE]
       /\ UNCHANGED <<now, serverVars, modVars, flagVars, banVars, extButRate>>

\* time passes in steps of half a window
WaitMs == timeWindow \div 2
MaxWaits == 2

\* time passes between two sends
Wait ==
    /\ now < MaxWaits * WaitMs
    /\ now' = now + WaitMs
    /\ UNCHANGED <<modVars, flagVars, banVars, extVars>>

NextRate ==
    \/ \E u \in UserIds : CheckRateLimit(u)
    \/ Wait

-----------------------------------------------------------------------------
(* The risk score: AnalyticsManager.calculateRiskScore of Dashboard.tsx.   *)
(* Ratios and sentiment values are counted in hundredths, times in         *)
(* milliseconds; a field that is not supplied is not in the record.        *)

RECURSIVE SumSeq(_)
SumSeq(s) == IF s = <<>> THEN 0 ELSE Head(s) + SumSeq(Tail(s))

\* x && ...: undefined and 0 are falsy
Truthy(obj, k) == Has(obj, k) /\ obj[k] # 0

\* avgSentiment < -0.5, the mean of a non-empty sentimentTrend, else 0
NegativeTrend(userBehavior) ==
    /\ Has(userBehavior, "sentimentTrend")
    /\ Len(userBehavior.sentimentTrend) > 0
    /\ SumSeq(userBehavior.sentimentTrend) < (-50) * Len(userBehavior.sentimentTrend)

calculateRiskScore(userBehavior) ==
    LET frequency == IF Truthy(userBehavior, "messagesPerHour")
                        /\ userBehavior.messagesPerHour > 10 THEN 20 ELSE 0
        flagged == IF Truthy(userBehavior, "flaggedMessageRatio")
                      /\ userBehavior.flaggedMessageRatio > 10 THEN 30 ELSE 0
        sentiment == IF NegativeTrend(userBehavior) THEN 25 ELSE 0
        response == IF Truthy(userBehavior, "responseTimeAvg")
                       /\ userBehavior.responseTimeAvg < 5000 THEN 15 ELSE 0
        length == IF Truthy(userBehavior, "averageMessageLength")
                     /\ userBehavior.averageMessageLength < 10 THEN 10 ELSE 0
        sum == frequency + flagged + sentiment + response + length
    IN IF sum < 100 THEN sum ELSE 100

\* the metrics records the score is computed for: every field supplied or
\* not, with values on both sides of its threshold
Field(k, values) == {EmptyObj} \cup {[x \in {k} |-> v] : v \in values}
Trends == {<<>>, <<0>>, <<-50>>, <<-100>>, <<-100, 0>>, <<-50, -51>>}
MetricsInputs ==
    { a @@ b @@ c @@ d @@ e :
        a \in Field("messagesPerHour", {0, 10, 11}),
        b \in Field("flaggedMessageRatio", {10, 11}),
        c \in Field("sentimentTrend", Trends),
        d \in Field("responseTimeAvg", {0, 1, 4999, 5000}),
        e \in Field("averageMessageLength", {0, 1, 9, 10}) }

InitScore == metrics = EmptyObj /\ riskScore = 0

CalculateRiskScore(userBehavior) ==
    /\ metrics' = userBehavior
    /\ riskScore' = calculateRiskScore(userBehavior)
    /\ UNCHANGED <<now, modVars, flagVars, banVars, extButScore>>

NextScore == \E m \in MetricsInputs : CalculateRiskScore(m)

-----------------------------------------------------------------------------
(* Flag statistics: MessageModerator.getFlaggedMessagesStats over the list *)
(* monitorFlaggedMessages delivers                                         *)

\* array.filter(test).length
Count(s, test(_)) == Len(SelectSeq(s, test))

\* !msg.reviewed: a record without the field counts as not reviewed
NotReviewed(msg) == ~(Has(msg, "reviewed") /\ msg.reviewed)

\* getFlaggedMessagesStats that counts the severities of all records
getFlaggedMessagesStats_AllSeverities(list) ==
    LET unreviewed == SelectSeq(list, NotReviewed)
        sev(v) == Count(list, LAMBDA msg : Has(msg, "severity") /\ msg.severity = v)
    IN [ total |-> Len(list),
         unreviewed |-> Len(unreviewed),
         bySeverity |-> [low |-> sev("low"), medium |-> sev("medium"), high |-> sev("high")],
         autoFlagged |-> Count(unreviewed, LAMBDA msg : Has(msg, "autoFlagged") /\ msg.autoFlagged),
         manualFlagged |-> Count(unreviewed, LAMBDA msg : ~(Has(msg, "autoFlagged") /\ msg.autoFlagged)) ]

\* getFlaggedMessagesStats; byReason is counted like bySeverity and left out
getFlaggedMessagesStats(list) ==
    LET unreviewed == SelectSeq(list, NotReviewed)
        sev(v) == Count(unreviewed, LAMBDA msg : Has(msg, "severity") /\ msg.severity = v)
    IN [ total |-> Len(list),
         unreviewed |-> Len(unreviewed),
         bySeverity |-> [low |-> sev("low"), medium |-> sev("medium"), high |-> sev("high")],
         autoFlagged |-> Count(unreviewed, LAMBDA msg : Has(msg, "autoFlagged") /\ msg.autoFlagged),
         manualFlagged |-> Count(unreviewed, LAMBDA msg : ~(Has(msg, "autoFlagged") /\ msg.autoFlagged)) ]

\* the records flaggedMessages/ can hold: those flagMessage writes, reviewed
\* or not, and the one a review of an unflagged id leaves
StoredFlags ==
    { [severity |-> s, autoFlagged |-> a, reviewed |-> r] :
        s \in {"low", "medium", "high"}, a \in BOOLEAN, r \in BOOLEAN }
    \cup { [severity |-> s, autoFlagged |-> a, reviewed |-> FALSE, action |-> "approved"] :
             s \in {"low", "medium", "high"}, a \in BOOLEAN }
    \cup { [reviewed |-> TRUE, action |-> "approved"] }

MaxFlagList == 2

\* ChatAdmin after construction: private messages: Message[] = []
NotMonitoring ==
    [messages |-> <<>>, delivered |-> FALSE, snapshot |-> {}, invoked |-> FALSE,
     stats |-> EmptyObj]

InitStats ==
    /\ flagList = <<>> /\ stats = getFlaggedMessagesStats(<<>>)
    /\ chatAdmin = NotMonitoring

\* a snapshot with one more record arrives and the panel computes its stats
MonitorFlaggedMessages(msg) ==
    /\ Len(flagList) < MaxFlagList
    /\ flagList' = Append(flagList, msg)
    /\ stats' = getFlaggedMessagesStats(flagList')
    /\ UNCHANGED <<now, chatAdmin, modVars, flagVars, banVars, extButStats>>

\* the snapshot of an emptied flaggedMessages/
MonitorNoFlags ==
    /\ flagList' = <<>>
    /\ stats' = getFlaggedMessagesStats(flagList')
    /\ UNCHANGED <<now, chatAdmin, modVars, flagVars, banVars, extButStats>>

NextStats ==
    \/ \E msg \in StoredFlags : MonitorFlaggedMessages(msg)
    \/ MonitorNoFlags

-----------------------------------------------------------------------------
(* Sending: handleSendMessage of Chatroom.tsx with                         *)
(* UserManager.incrementMessageCount and logActivity.  A message is kept   *)
(* as its author, its timestamp, the length of its text and the sentiment  *)
(* of its text in hundredths; messageData keeps what was pushed under an   *)
(* id also after the message is removed.                                   *)

\* the browser tabs that send
Tabs == {"t1", "t2"}

\* verdicts of moderateMessage: allow, delete, and two that flag
SendVerdicts ==
    { NoVerdict, Verdict(TRUE, TRUE, "harassment", "high"),
      Verdict(TRUE, FALSE, "profanity", "low"), Verdict(TRUE, FALSE, "spam", "medium") }

\* the texts typed, as length and sentiment
MessageInputs == {[length |-> 5, sentiment |-> -100], [length |-> 20, sentiment |-> 0]}

\* the key push(messagesRef) hands out: one never used before; 0 when the
\* ids of the model are used up
NextMessageId ==
    LET free == {id \in DOMAIN messageData : ~Exists(messageData[id])}
    IN IF free = {} THEN 0 ELSE CHOOSE id \in free : \A other \in free : id <= other

NotSending == [pc |-> "idle"]

\* the submits of the send form that reach the rate limiter, all tabs together
MaxSubmits == 2

\* snapshot.val()?.messageCount || 0
CurrentCount(snapshot) ==
    IF Has(snapshot, "messageCount") THEN snapshot.messageCount ELSE 0

\* incrementMessageCount without its try/catch: a failed write throws
incrementMessageCount_Throws(userId, currentCount, ok) ==
    [ users |-> IF ok
                THEN [users EXCEPT ![userId] =
                        Update(@, [messageCount |-> currentCount + 1, lastActive |-> now])]
                ELSE users,
      threw |-> ~ok ]

\* incrementMessageCount after its get(): users after the update, and
\* whether the call threw; ok is whether update() resolved
incrementMessageCount(userId, currentCount, ok) ==
    [ users |-> IF ok
                THEN [users EXCEPT ![userId] =
                        Update(@, [messageCount |-> currentCount + 1, lastActive |-> now])]
                ELSE users,
      threw |-> FALSE ]

\* the catch of handleSendMessage: alert('Failed to send message')
SendFailed(call) == [call EXCEPT !.pc = "done", !.outcome = "failed"]

\* the returns before the try that skip a verdict with shouldDelete
ReturnsEarly_RateOnly(rateLimitResult, moderationResult) == ~rateLimitResult.isValid

\* the returns of handleSendMessage before its try: after the alert of the
\* rate limiter, or after the alert for a verdict with shouldDelete
ReturnsEarly(rateLimitResult, moderationResult) ==
    ~rateLimitResult.isValid \/ moderationResult.shouldDelete

InitSend ==
    /\ messageData = [id \in MsgIds |->
                        [userId |-> "u1", timestamp |-> 0, length |-> 5, sentiment |-> 0]]
    /\ send = [t \in Tabs |-> NotSending]

\* handleSendMessage up to the end of its first await: validation passed,
\* checkRateLimit, moderateMessage with verdict v, push of the message.  A
\* rate-limited or deleted message returns after the alert; a failed push
\* goes to the catch.
SendPush(t, userId, v, m, ok) ==
    /\ send[t].pc = "idle"
    /\ NextMessageId # 0
    /\ SentSoFar < MaxSubmits
    /\ LET r == checkRateLimit(userMessageTimes, userId)
           id == NextMessageId
           call == [ pc |-> "count", userId |-> userId, id |-> id, verdict |-> v,
                     pushed |-> TRUE, countFailed |-> FALSE, logFailed |-> FALSE,
                     flagAttempted |-> FALSE, currentCount |-> 0, outcome |-> "pending" ]
       IN /\ userMessageTimes' = r.times
          /\ accepted' = IF r.isValid THEN [accepted EXCEPT ![userId] = Append(@, now)]
                         ELSE accepted
          /\ lastRate' = [userId |-> userId, isValid |-> r.isValid, at |-> now,
                          before |-> Len(accepted[userId]),
                          refused |-> r.isValid /\ v.shouldDelete]
          /\ IF ReturnsEarly(r, v)
             THEN UNCHANGED <<messages, messageData, autoPending, send>>
             ELSE IF ~ok
             THEN /\ send' = [send EXCEPT ![t] = SendFailed([call EXCEPT !.pushed = FALSE])]
                  /\ UNCHANGED <<messages, messageData, autoPending>>
             ELSE /\ messages' = messages \cup {id}
                  /\ messageData' = [messageData EXCEPT ![id] =
                        [userId |-> userId, timestamp |-> now] @@ m]
                  /\ autoPending' = IF v.shouldFlag THEN autoPending \cup {id}
                                    ELSE autoPending
                  /\ send' = [send EXCEPT ![t] = call]
    /\ UNCHANGED <<now, serverVars, modVars, flaggedMessages, review, banVars,
                   extButSendRate>>

\* incrementMessageCount: get(userRef); a failed read is caught inside
SendCountGet(t, ok) ==
    /\ send[t].pc = "count"
    /\ send' = [send EXCEPT ![t] =
                  IF ok THEN [@ EXCEPT !.pc = "counting",
                                       !.currentCount = CurrentCount(users[send[t].userId])]
                  ELSE [@ EXCEPT !.pc = "log", !.countFailed = TRUE]]
    /\ UNCHANGED <<now, modVars, flagVars, banVars, messageData, extButSend>>

\* incrementMessageCount: update(userRef)
SendCountUpdate(t, ok) ==
    /\ send[t].pc = "counting"
    /\ LET r == incrementMessageCount(send[t].userId, send[t].currentCount, ok)
       IN /\ users' = r.users
          /\ send' = [send EXCEPT ![t] =
                        IF r.threw THEN SendFailed([@ EXCEPT !.countFailed = TRUE])
                        ELSE [@ EXCEPT !.pc = "log", !.countFailed = ~ok]]
    /\ UNCHANGED <<now, modVars, flagVars, bans, activityCount, nextBanId, scenario, lastCall,
                   messageData, extButSend>>

\* logActivity(uid, 'message_sent'); without a verdict to flag the send ends
SendLog(t, ok) ==
    /\ send[t].pc = "log"
    /\ activityCount' = logActivity(activityCount, ok)
    /\ send' = [send EXCEPT ![t] =
                  IF @.verdict.shouldFlag
                  THEN [@ EXCEPT !.pc = "flag", !.logFailed = ~ok]
                  ELSE [@ EXCEPT !.pc = "done", !.logFailed = ~ok, !.outcome = "sent"]]
    /\ UNCHANGED <<now, modVars, flagVars, bans, users, nextBanId, scenario, lastCall,
                   messageData, extButSend>>

\* flagMessage for a verdict with shouldFlag, then 'Message sent successfully'
SendFlag(t, ok) ==
    /\ send[t].pc = "flag"
    /\ flaggedMessages' = flagMessage(send[t].id, send[t].verdict.flagReason,
                                      send[t].verdict.severity, Absent, TRUE, ok)
    /\ autoPending' = autoPending \ {send[t].id}
    /\ send' = [send EXCEPT ![t] =
                  [@ EXCEPT !.pc = "done", !.flagAttempted = TRUE, !.outcome = "sent"]]
    /\ UNCHANGED <<now, modVars, messages, review, banVars, messageData, extButSend>>

\* finally: setLoading(false); the tab can send again
SendDone(t) ==
    /\ send[t].pc = "done"
    /\ send' = [send EXCEPT ![t] = NotSending]
    /\ UNCHANGED <<now, modVars, flagVars, banVars, messageData, extButSend>>

\* a caller enters incrementMessageCount(userId)
IncrementMessageCount(t, userId) ==
    /\ send[t].pc = "idle"
    /\ send' = [send EXCEPT ![t] =
                  [ pc |-> "count", userId |-> userId, id |-> 0, verdict |-> NoVerdict,
                    pushed |-> FALSE, countFailed |-> FALSE, logFailed |-> FALSE,
                    flagAttempted |-> FALSE, currentCount |-> 0, outcome |-> "pending" ]]
    /\ UNCHANGED <<now, modVars, flagVars, banVars, messageData, extButSend>>

\* calls of incrementMessageCount, one per tab, and the clock: a call has
\* returned when its tab is at "log"
NextCount ==
    \/ \E t \in Tabs, u \in UserIds : IncrementMessageCount(t, u)
    \/ \E t \in Tabs, ok \in BOOLEAN : SendCountGet(t, ok)
    \/ \E t \in Tabs, ok \in BOOLEAN : SendCountUpdate(t, ok)
    \/ Tick

NextSend ==
    \/ \E t \in Tabs, u \in UserIds, v \in SendVerdicts, m \in MessageInputs, ok \in BOOLEAN :
         SendPush(t, u, v, m, ok)
    \/ \E t \in Tabs, ok \in BOOLEAN : SendCountGet(t, ok)
    \/ \E t \in Tabs, ok \in BOOLEAN : SendCountUpdate(t, ok)
    \/ \E t \in Tabs, ok \in BOOLEAN : SendLog(t, ok)
    \/ \E t \in Tabs, ok \in BOOLEAN : SendFlag(t, ok)
    \/ \E t \in Tabs : SendDone(t)

-----------------------------------------------------------------------------
(* Analytics: AnalyticsManager of Dashboard.tsx.  Ratios, rates and         *)
(* sentiment values are counted in hundredths and rounded so that every     *)
(* comparison the code makes with them has the same outcome; what is        *)
(* computed from the words of a message or from the hour of day             *)
(* (averageWordsPerMessage, peak hours, keywords, word cloud) and the       *)
(* per-moderator and per-rule tables are left out.  All timestamps of a     *)
(* run lie in the same day, so that a weekly or daily bucketing yields one  *)
(* bucket.  null is the object without fields.                              *)

DayMs == 86400000

\* Math.ceil(a / b) for b > 0
CeilDiv(a, b) == -((-a) \div b)

\* sum / n for n > 0, rounded down but not to 0 from a positive value
Mean(sum, n) == IF sum > 0 /\ sum < n THEN 1 ELSE sum \div n

\* Object.values() of the members of a set of keys
RECURSIVE SeqOf(_)
SeqOf(S) ==
    IF S = {} THEN <<>>
    ELSE LET x == CHOOSE x \in S : TRUE IN <<x>> \o SeqOf(S \ {x})

\* .sort((a, b) => a.timestamp - b.timestamp)
RECURSIVE ByTimestamp(_)
ByTimestamp(ids) ==
    IF ids = {} THEN <<>>
    ELSE LET first == CHOOSE id \in ids :
                         \A other \in ids :
                             messageData[id].timestamp <= messageData[other].timestamp
         IN <<first>> \o ByTimestamp(ids \ {first})

\* time > Date.now() - days * 24 * 60 * 60 * 1000, written with the age in
\* whole days so that no product leaves TLC's integers
After(time, days) == (now - time) \div DayMs < days

\* Date.now() - days * 24 * 60 * 60 * 1000 as a time and days before it
DaysBefore(time, days) == [time |-> time, daysBefore |-> days]

\* the messages with msg.timestamp > Date.now() - days * 24 * 60 * 60 * 1000
RecentMessages(days) == {id \in messages : After(messageData[id].timestamp, days)}

\* the flags written by flagMessage for messages of userId
FlagsOf(userId) ==
    {id \in DOMAIN flaggedMessages : /\ Has(flaggedMessages[id], "flaggedAt")
                     /\ Has(messageData[id], "userId")
                     /\ messageData[id].userId = userId}

\* email and displayName as far as the profile has them, and lastActive || 0
Identity(userId) ==
    [k \in {"email", "displayName"} \cap DOMAIN users[userId] |-> users[userId][k]]
    @@ [userId |-> userId,
        lastActivity |-> IF Truthy(users[userId], "lastActive")
                         THEN users[userId].lastActive ELSE 0]

\* the record returned when userMessages.length === 0
ZeroedMetrics(userId) ==
    [totalMessages |-> 0, averageMessageLength |-> 0, messagesPerHour |-> 0,
     sentimentTrend |-> <<>>, flaggedMessageRatio |-> 0, responseTimeAvg |-> 0,
     riskScore |-> 0] @@ Identity(userId)

\* the record computed from a non-empty userMessages, riskScore included
ComputedMetrics(userId, userMessages) ==
    LET n == Len(userMessages)
        time(i) == messageData[userMessages[i]].timestamp
        totalLength == SumSeq([i \in 1..n |-> messageData[userMessages[i]].length])
        timeSpan == time(n) - time(1)
        sentiments == SumSeq([i \in 1..n |-> messageData[userMessages[i]].sentiment])
        responseTimes == SelectSeq([i \in 1..(n - 1) |-> time(i + 1) - time(i)],
                                   LAMBDA timeDiff : timeDiff < 5 * 60 * 1000)
        userBehavior ==
            [totalMessages |-> n,
             averageMessageLength |-> Mean(totalLength, n),
             messagesPerHour |-> IF timeSpan > 0 THEN CeilDiv(n * HourMs, timeSpan) ELSE 0,
             sentimentTrend |-> <<Mean(sentiments, n)>>,
             flaggedMessageRatio |-> CeilDiv(100 * Cardinality(FlagsOf(userId)), n),
             responseTimeAvg |-> IF Len(responseTimes) > 0
                                 THEN Mean(SumSeq(responseTimes), Len(responseTimes))
                                 ELSE 0]
    IN [riskScore |-> calculateRiskScore(userBehavior)] @@ userBehavior @@ Identity(userId)

\* analyzeUserBehavior without its `if (!user) return null` (a variant)
analyzeUserBehavior_ZeroedWithoutProfile(userId, days, ok) ==
    LET userMessages ==
            ByTimestamp({id \in RecentMessages(days) : messageData[id].userId = userId})
    IN [threw |-> FALSE,
        value |-> IF ~ok THEN EmptyObj
                  ELSE IF Len(userMessages) = 0 THEN ZeroedMetrics(userId)
                  ELSE ComputedMetrics(userId, userMessages)]

\* analyzeUserBehavior: ok is whether the three reads resolved; every error
\* is caught and null returned
analyzeUserBehavior(userId, days, ok) ==
    LET userMessages ==
            ByTimestamp({id \in RecentMessages(days) : messageData[id].userId = userId})
    IN [threw |-> FALSE,
        value |-> IF ~ok THEN EmptyObj
                  ELSE IF ~Exists(users[userId]) THEN EmptyObj
                  ELSE IF Len(userMessages) = 0 THEN ZeroedMetrics(userId)
                  ELSE ComputedMetrics(userId, userMessages)]

\* generateChatAnalytics, the reads having resolved
generateChatAnalytics(days) ==
    LET recentMessages == SeqOf(RecentMessages(days))
        last24hMessages == RecentMessages(1)
        totalMessages == Len(recentMessages)
        totalUsers == Cardinality({u \in UserIds : Exists(users[u])})
        recentFlagged == SeqOf({id \in MsgIds : /\ Has(flaggedMessages[id], "flaggedAt")
                                                /\ After(flaggedMessages[id].flaggedAt, days)})
        flag(i) == flaggedMessages[recentFlagged[i]]
        flags == [i \in 1..Len(recentFlagged) |-> flag(i)]
        autoFlagged == Count(flags, LAMBDA f : Has(f, "autoFlagged") /\ f.autoFlagged)
        sentiments == SumSeq([i \in 1..totalMessages |->
                                 messageData[recentMessages[i]].sentiment])
    IN [totalMessages |-> totalMessages,
        totalUsers |-> totalUsers,
        activeUsers24h |-> Cardinality({messageData[id].userId : id \in last24hMessages}),
        averageMessagesPerUser |-> IF totalUsers > 0 THEN Mean(totalMessages, totalUsers) ELSE 0,
        sentimentOverTime |-> IF totalMessages > 0
                              THEN <<[avgSentiment |-> Mean(sentiments, totalMessages),
                                      messageCount |-> totalMessages]>>
                              ELSE <<>>,
        moderationStats |->
            [totalFlagged |-> Len(flags),
             autoFlagged |-> autoFlagged,
             manualFlagged |-> Len(flags) - autoFlagged,
             deletedMessages |-> Count(flags, LAMBDA f : Has(f, "action") /\ f.action = "deleted"),
             approvedMessages |-> Count(flags, LAMBDA f : Has(f, "action") /\ f.action = "approved"),
             flaggedRatio |-> IF totalMessages > 0
                              THEN CeilDiv(100 * Len(flags), totalMessages) ELSE 0],
        topUsers |-> {messageData[recentMessages[i]].userId : i \in 1..totalMessages}]

\* (n / d) * 100 kept as an exact quotient
Percent(n, d) == [num |-> n * 100, den |-> d]

\* Object.values(flaggedSnapshot.val() || {})
FlagValues == LET ids == SeqOf({id \in MsgIds : Exists(flaggedMessages[id])})
              IN [i \in 1..Len(ids) |-> flaggedMessages[ids[i]]]

\* analyzeModerationEffectiveness on the flags read, the read having
\* resolved; avgReviewTime in minutes, rounded up
analyzeModerationEffectiveness(flaggedMessageValues, days) ==
    LET flags == SelectSeq(flaggedMessageValues,
                           LAMBDA flag : /\ Has(flag, "flaggedAt")
                                         /\ After(flag.flaggedAt, days)
                                         /\ Has(flag, "reviewed")
                                         /\ flag.reviewed)
        totalReviews == Len(flags)
        timed == SelectSeq(flags, LAMBDA f : Truthy(f, "reviewedAt") /\ Truthy(f, "flaggedAt"))
        reviewTimes == [i \in 1..Len(timed) |-> timed[i].reviewedAt - timed[i].flaggedAt]
        correctFlags == Count(flags, LAMBDA f : Has(f, "action") /\ f.action = "deleted")
        incorrectFlags == Count(flags, LAMBDA f : Has(f, "action") /\ f.action = "approved")
    IN [totalReviews |-> totalReviews,
        avgReviewTime |-> IF Len(reviewTimes) > 0
                          THEN CeilDiv(SumSeq(reviewTimes), Len(reviewTimes) * 60 * 1000)
                          ELSE 0,
        accuracyRate |-> IF totalReviews > 0 THEN Percent(correctFlags, totalReviews)
                         ELSE Percent(0, 1),
        falsePositiveRate |-> IF totalReviews > 0 THEN Percent(incorrectFlags, totalReviews)
                              ELSE Percent(0, 1),
        missedViolations |-> 0]

\* generateReport, 757-790: the rules that fired, in the order of the code;
\* each pushes one insight and one recommendation
Insights(chatAnalytics, moderationEffectiveness, userBehaviorMetrics) ==
    LET recentSentiment == chatAnalytics.sentimentOverTime
        rule(name, fired) == IF fired THEN <<name>> ELSE <<>>
    IN rule("engagement", chatAnalytics.activeUsers24h * 10 < chatAnalytics.totalUsers)
       \o rule("moderationLoad", chatAnalytics.moderationStats.flaggedRatio > 5)
       \o rule("slowReview", moderationEffectiveness.avgReviewTime > 60)
       \o rule("highRisk", \E user \in userBehaviorMetrics : user.riskScore > 70)
       \o rule("sentiment", /\ Len(recentSentiment) > 0
                            /\ recentSentiment[1].avgSentiment < -20)

ReportTypes == {"daily", "weekly", "monthly", "custom"}

\* startDate and endDate, each supplied or not; 0 is the epoch
ReportArgs ==
    {a @@ b : a \in Field("startDate", {0, 1}), b \in Field("endDate", {0, DayMs})}

\* the switch of generateReport: days, or 0 with the error it throws
ReportWindow(type, args) ==
    CASE type = "daily" -> [error |-> "none", days |-> 1, startDate |-> DaysBefore(now, 1), endDate |-> now]
      [] type = "weekly" -> [error |-> "none", days |-> 7, startDate |-> DaysBefore(now, 7), endDate |-> now]
      [] type = "monthly" -> [error |-> "none", days |-> 30, startDate |-> DaysBefore(now, 30), endDate |-> now]
      [] type = "custom" ->
            IF ~Truthy(args, "startDate") \/ ~Truthy(args, "endDate")
            THEN [error |-> "dates", days |-> 0, startDate |-> DaysBefore(0, 0), endDate |-> 0]
            ELSE [error |-> "none", days |-> CeilDiv(args.endDate - args.startDate, DayMs),
                  startDate |-> DaysBefore(args.startDate, 0), endDate |-> args.endDate]

MaxReports == 1

NoReport ==
    [pc |-> "idle", calls |-> 0, type |-> Absent, args |-> EmptyObj, generatedBy |-> Absent,
     window |-> [error |-> "none", days |-> 0, startDate |-> DaysBefore(0, 0), endDate |-> 0],
     written |-> 0, chatAnalytics |-> EmptyObj, moderationEffectiveness |-> EmptyObj,
     userBehaviorMetrics |-> {}, insights |-> <<>>, recommendations |-> <<>>,
     outcome |-> "none", error |-> "none"]

InitAna ==
    /\ analysis = [called |-> FALSE, userId |-> Absent, days |-> 0, ok |-> TRUE, profile |-> FALSE,
                   inWindow |-> 0, threw |-> FALSE, value |-> EmptyObj]
    /\ report = NoReport
    /\ reports = <<>>
    /\ effectiveness = [called |-> FALSE, flags |-> <<>>, days |-> 0,
                        value |-> analyzeModerationEffectiveness(<<>>, 0)]

\* a call of analyzeUserBehavior, from the admin panel or elsewhere
AnalyzeUserBehavior(userId, days, ok) ==
    /\ LET r == analyzeUserBehavior(userId, days, ok)
       IN analysis' = [called |-> TRUE, userId |-> userId, days |-> days, ok |-> ok,
                       profile |-> Exists(users[userId]),
                       inWindow |-> Cardinality({id \in RecentMessages(days) :
                                                    messageData[id].userId = userId}),
                       threw |-> r.threw, value |-> r.value]
    /\ UNCHANGED <<now, modVars, flagVars, banVars, extButAna, report, reports, effectiveness>>

\* generateReport up to the end of its first await: the window, then
\* generateChatAnalytics and analyzeModerationEffectiveness, whose reads
\* resolve (ok) or make the call throw
GenerateReportStart(type, args, generatedBy, ok) ==
    /\ report.pc = "idle"
    /\ report.calls < MaxReports
    /\ LET window == ReportWindow(type, args)
           call == [NoReport EXCEPT !.calls = report.calls + 1, !.type = type, !.args = args,
                                    !.generatedBy = generatedBy, !.window = window,
                                    !.written = Len(reports)]
       IN report' =
            IF window.error # "none"
            THEN [call EXCEPT !.outcome = "threw", !.error = window.error]
            ELSE IF ~ok
            THEN [call EXCEPT !.outcome = "threw", !.error = "read"]
            ELSE [call EXCEPT !.pc = "behavior",
                              !.chatAnalytics = generateChatAnalytics(window.days),
                              !.moderationEffectiveness =
                                  analyzeModerationEffectiveness(FlagValues, window.days)]
    /\ UNCHANGED <<now, modVars, flagVars, banVars, extButAna, analysis, reports, effectiveness>>

\* analyzeUserBehavior for the top users (at most five; there are no more
\* users than that), then the insights
GenerateReportBehavior(ok) ==
    /\ report.pc = "behavior"
    /\ LET userBehaviorResults ==
               {analyzeUserBehavior(user, report.window.days, ok).value :
                    user \in report.chatAnalytics.topUsers}
           userBehaviorMetrics == {r \in userBehaviorResults : Exists(r)}
           insights == Insights(report.chatAnalytics, report.moderationEffectiveness,
                                userBehaviorMetrics)
       IN report' = [report EXCEPT !.pc = "save",
                                   !.userBehaviorMetrics = userBehaviorMetrics,
                                   !.insights = insights,
                                   !.recommendations = insights]
    /\ UNCHANGED <<now, modVars, flagVars, banVars, extButAna, analysis, reports, effectiveness>>

\* push(reportsRef).key, update(analyticsReports/{id}, report), return
GenerateReportSave(ok) ==
    /\ report.pc = "save"
    /\ reports' =
         IF ok
         THEN Append(reports,
                     [id |-> Len(reports) + 1, type |-> report.type,
                      startDate |-> report.window.startDate,
                      endDate |-> report.window.endDate,
                      generatedAt |-> now, generatedBy |-> report.generatedBy,
                      chatAnalytics |-> report.chatAnalytics,
                      userBehaviorMetrics |-> report.userBehaviorMetrics,
                      moderationEffectiveness |-> report.moderationEffectiveness,
                      insights |-> report.insights,
                      recommendations |-> report.recommendations])
         ELSE reports
    /\ report' = [report EXCEPT !.pc = "idle",
                                !.outcome = IF ok THEN "returned" ELSE "threw",
                                !.error = IF ok THEN "none" ELSE "write"]
    /\ UNCHANGED <<now, modVars, flagVars, banVars, extButAna, analysis, effectiveness>>

WindowDays == {0, 1}

\* the records flaggedMessages/ can hold: the one flagMessage writes, as it
\* is and after a review with each action, and the one a review of an
\* unflagged id leaves
EffectFlags ==
    LET flagged == [flagReason |-> "spam", flaggedAt |-> 0, autoFlagged |-> TRUE,
                    severity |-> "low", reviewed |-> FALSE]
        reviews == {[reviewed |-> TRUE, reviewedBy |-> "admin1", reviewedAt |-> 0,
                     action |-> action] : action \in ReviewActions}
    IN {flagged} \cup {Update(flagged, r) : r \in reviews}
       \cup {r \in reviews : r.action = "deleted"}

MaxEffectFlags == 3

\* the values of flaggedMessages/ handed to analyzeModerationEffectiveness
EffectInputs == UNION {[1..n -> EffectFlags] : n \in 0..MaxEffectFlags}

\* a call of analyzeModerationEffectiveness that reads the flags `flags`
AnalyzeModerationEffectiveness(flags, days) ==
    /\ effectiveness' = [called |-> TRUE, flags |-> flags, days |-> days,
                         value |-> analyzeModerationEffectiveness(flags, days)]
    /\ UNCHANGED <<now, modVars, flagVars, banVars, extButAna, analysis, report, reports>>

NextEffect ==
    \E flags \in EffectInputs, days \in WindowDays : AnalyzeModerationEffectiveness(flags, days)

\* the calls of generateReport: the dates matter to a custom report only
ReportCalls ==
    {[type |-> type, args |-> EmptyObj] : type \in ReportTypes}
    \cup {[type |-> "custom", args |-> args] : args \in ReportArgs}

\* the chat with one tab sending
SendOneTab ==
    \/ \E u \in UserIds, v \in SendVerdicts, m \in MessageInputs, ok \in BOOLEAN :
         SendPush("t1", u, v, m, ok)
    \/ \E ok \in BOOLEAN : SendCountGet("t1", ok)
    \/ \E ok \in BOOLEAN : SendCountUpdate("t1", ok)
    \/ \E ok \in BOOLEAN : SendLog("t1", ok)
    \/ \E ok \in BOOLEAN : SendFlag("t1", ok)
    \/ SendDone("t1")

NextBehavior ==
    \/ SendOneTab
    \/ \E u \in UserIds, days \in WindowDays, ok \in BOOLEAN : AnalyzeUserBehavior(u, days, ok)

NextReport ==
    \/ SendOneTab
    \/ \E call \in ReportCalls, ok \in BOOLEAN :
         GenerateReportStart(call.type, call.args, "admin1", ok)
    \/ \E ok \in BOOLEAN : GenerateReportBehavior(ok)
    \/ \E ok \in BOOLEAN : GenerateReportSave(ok)

-----------------------------------------------------------------------------
(* ChatAdmin: the subscription of startMonitoring to messages/, with
   messages sent and deleted meanwhile *)

\* calculateStats over this.messages; topUsers as the count per user, its
\* order left out
calculateStats(msgs) ==
    LET ids == {msgs[i] : i \in 1..Len(msgs)}
        activeUsers == {messageData[id].userId : id \in ids}
    IN [ totalMessages |-> Len(msgs),
         activeUsers |-> activeUsers,
         messagesPerHour |->
             Cardinality({id \in ids : messageData[id].timestamp > now - HourMs}),
         topUsers |->
             [u \in activeUsers |-> Cardinality({id \in ids : messageData[id].userId = u})] ]

\* the callback of onValue(messagesRef) for a snapshot holding the messages
\* data: ChatAdmin afterwards
onMessages(data) ==
    IF data # {}
    THEN LET msgs == ByTimestamp(data)
         IN [ messages |-> msgs, delivered |-> TRUE, snapshot |-> data, invoked |-> TRUE,
              stats |-> calculateStats(msgs) ]
    ELSE [chatAdmin EXCEPT !.delivered = TRUE, !.snapshot = data, !.invoked = FALSE]

\* the subscription delivers messages/ as it is: at first, and after a change
OnMessages ==
    /\ ~chatAdmin.delivered \/ chatAdmin.snapshot # messages
    /\ chatAdmin' = onMessages(messages)
    /\ UNCHANGED <<now, flagList, stats, modVars, flagVars, banVars, extButStats>>

\* ChatAdmin.deleteMessage(messageId); ok is whether remove() resolved
AdminDeleteMessage(id, ok) ==
    /\ id \in messages
    /\ messages' = deleteMessage(id, ok)
    /\ UNCHANGED <<flaggedMessages, autoPending, review, now, modVars, banVars, extVars>>

NextMonitor ==
    \/ SendOneTab
    \/ \E id \in MsgIds, ok \in BOOLEAN : AdminDeleteMessage(id, ok)
    \/ OnMessages
    \/ Tick

\* the keys push() hands out where one message more is sent than elsewhere
RatioIds == 1..(NumMessages + 1)

\* messages sent, flagged and deleted, and the behaviour of a user analysed
NextRatio ==
    \/ SendOneTab
    \/ \E id \in RatioIds, ok \in BOOLEAN : AdminDeleteMessage(id, ok)
    \/ \E u \in UserIds, days \in WindowDays, ok \in BOOLEAN : AnalyzeUserBehavior(u, days, ok)

-----------------------------------------------------------------------------
(* The Cloud Function sendMessage with its rate limiter: checkRateLimit
   and updateRateLimit over the Map userRateLimits *)

windowMs == 60000
maxRequests == 10

\* checkRateLimit(userId) of the Cloud Functions: the Map afterwards and
\* whether the request is allowed; reset is whether it began a window
serverCheckRateLimit(limits, userId) ==
    LET fresh == [limits EXCEPT ![userId] = [count |-> 1, resetTime |-> now + windowMs]]
    IN IF ~Exists(limits[userId])
       THEN [limits |-> fresh, allowed |-> TRUE, reset |-> TRUE]
       ELSE IF now > limits[userId].resetTime
       THEN [limits |-> fresh, allowed |-> TRUE, reset |-> TRUE]
       ELSE IF limits[userId].count >= maxRequests
       THEN [limits |-> limits, allowed |-> FALSE, reset |-> FALSE]
       ELSE [limits |-> limits, allowed |-> TRUE, reset |-> FALSE]

\* updateRateLimit(userId)
serverUpdateRateLimit(limits, userId) ==
    IF Exists(limits[userId])
    THEN [limits EXCEPT ![userId] = [@ EXCEPT !.count = @ + 1]]
    ELSE limits

\* the user who calls and the message the Cloud Function stores
ServerUsers == {"u1"}
ServerText == [length |-> 5, sentiment |-> 0]

\* the keys messagesRef.push() can hand out
MaxServerSends == 11
ServerIds == 1..MaxServerSends

\* sendMessage up to its first await on the network: the request is
\* authenticated and well formed; checkRateLimit, then validateMessageContent
\* (valid is its isValid).  sentBefore keeps the sends of the user that had
\* succeeded in the window when the limiter was asked.
SendMessageCheck(c, userId, valid) ==
    /\ serverCall[c].pc = "idle"
    /\ NextMessageId # 0
    /\ LET r == serverCheckRateLimit(userRateLimits, userId)
           sentBefore == IF r.reset THEN 0 ELSE serverSent[userId]
           call == [pc |-> "push", userId |-> userId, sentBefore |-> sentBefore,
                    result |-> "pending"]
       IN /\ userRateLimits' = r.limits
          /\ serverSent' = [serverSent EXCEPT ![userId] = sentBefore]
          /\ serverCall' = [serverCall EXCEPT ![c] =
                IF ~r.allowed THEN [call EXCEPT !.pc = "done", !.result = "rateLimited"]
                ELSE IF ~valid THEN [call EXCEPT !.pc = "done", !.result = "invalid"]
                ELSE call]
    /\ UNCHANGED <<now, userMessageTimes, accepted, lastRate, modVars, flagVars, banVars,
                   extButRate>>

\* after getUserProfile: messagesRef.push(messageData), updateRateLimit and
\* the answer; a failed push is rethrown
SendMessagePush(c, ok) ==
    /\ serverCall[c].pc = "push"
    /\ NextMessageId # 0
    /\ LET userId == serverCall[c].userId
           id == NextMessageId
       IN IF ok
          THEN /\ messages' = messages \cup {id}
               /\ messageData' = [messageData EXCEPT ![id] =
                     [userId |-> userId, timestamp |-> now] @@ ServerText]
               /\ userRateLimits' = serverUpdateRateLimit(userRateLimits, userId)
               /\ serverSent' = [serverSent EXCEPT ![userId] = @ + 1]
               /\ serverCall' = [serverCall EXCEPT ![c] =
                                   [@ EXCEPT !.pc = "done", !.result = "success"]]
          ELSE /\ serverCall' = [serverCall EXCEPT ![c] =
                                   [@ EXCEPT !.pc = "done", !.result = "failed"]]
               /\ UNCHANGED <<messages, messageData, userRateLimits, serverSent>>
    /\ UNCHANGED <<now, userMessageTimes, accepted, lastRate, modVars, flaggedMessages,
                   autoPending, review, banVars, roleVars, scoreVars, statsVars, send,
                   anaVars>>

\* the caller has its answer and may call again
SendMessageReturn(c) ==
    /\ serverCall[c].pc = "done"
    /\ serverCall' = [serverCall EXCEPT ![c] = [pc |-> "idle"]]
    /\ UNCHANGED <<now, userMessageTimes, accepted, lastRate, userRateLimits, serverSent,
                   modVars, flagVars, banVars, extButRate>>

\* the window of the limiter runs out
MinutePasses ==
    /\ now < MaxTime * (windowMs + 1)
    /\ now' = now + windowMs + 1
    /\ UNCHANGED <<modVars, flagVars, banVars, extVars>>

NextServer ==
    \/ \E c \in Callers, u \in ServerUsers, valid \in BOOLEAN : SendMessageCheck(c, u, valid)
    \/ \E c \in Callers, ok \in BOOLEAN : SendMessagePush(c, ok)
    \/ \E c \in Callers : SendMessageReturn(c)
    \/ MinutePasses

-----------------------------------------------------------------------------
(* Status calls: banUser, unbanUser, suspendUser and canUserPerformAction
   on the same profiles, with the clock moving between them *)

\* update() with null values: the keys are removed
Remove(obj, keys) == [k \in DOMAIN obj \ keys |-> obj[k]]

\* the hours an admin suspends for
SuspendHours == {1}

\* suspendUser(userId, suspendedBy, reason, hours); failAt: 1 the write of
\* users/{userId}, 2 the push of logActivity (caught there), 0 none
suspendUser(userId, suspendedBy, hours, failAt) ==
    IF failAt = 1
    THEN [users |-> users, activity |-> activityCount, result |-> FALSE]
    ELSE [users |-> [users EXCEPT ![userId] =
                       Update(@, [ status |-> "suspended",
                                   suspendedUntil |-> now + hours * HourMs,
                                   suspensionReason |-> "reason" ])],
          activity |-> logActivity(activityCount, failAt # 2),
          result |-> TRUE]

\* the permission keys canUserPerformAction is asked about
CheckedActions == {"canSendMessages", "canBanUsers"}

\* canUserPerformAction(userId, action); failAt: 1 the read of the profile
\* (getUserProfile answers null), 2 the write that ends the suspension, 0 none
canUserPerformAction(userId, action, failAt) ==
    LET profile == IF failAt = 1 THEN EmptyObj ELSE users[userId]
        granted == Has(profile, "permissions") /\ profile.permissions[action]
    IN IF ~Exists(profile) THEN [users |-> users, result |-> FALSE]
       ELSE IF profile.status = "suspended" /\ Truthy(profile, "suspendedUntil")
       THEN IF now > profile.suspendedUntil
            THEN IF failAt = 2 THEN [users |-> users, result |-> FALSE]
                 ELSE [users |-> [users EXCEPT ![userId] =
                                    Remove(Update(@, [status |-> "active"]),
                                           {"suspendedUntil", "suspensionReason"})],
                       result |-> granted]
            ELSE [users |-> users, result |-> FALSE]
       ELSE IF profile.status # "active" THEN [users |-> users, result |-> FALSE]
       ELSE [users |-> users, result |-> granted]

\* the profiles of two signed-up users
InitStatus ==
    /\ bans = [b \in BanIds |-> EmptyObj]
    /\ users = [u \in UserIds |->
                  [status |-> "active", banHistory |-> EmptyObj,
                   permissions |-> defaultPermissions]]
    /\ activityCount = 0
    /\ nextBanId = 1
    /\ scenario = [u \in UserIds |-> ScenarioStart]
    /\ lastCall = NoStatusCall

\* the number of status calls in a run
MaxCalls == 3

BanUserCall(userId, bannedBy, args, failAt) ==
    /\ lastCall.calls < MaxCalls
    /\ nextBanId <= MaxBans
    /\ LET r == banUser(userId, bannedBy, args, failAt)
       IN /\ bans' = r.bans
          /\ users' = r.users
          /\ activityCount' = r.activity
          /\ nextBanId' = nextBanId + 1
          /\ lastCall' = StatusCall("ban", userId, Absent, failAt, r.result, nextBanId)
    /\ UNCHANGED <<now, scenario, modVars, flagVars, extVars>>

UnbanUserCall(userId, revokedBy, failAt) ==
    LET r == unbanUser(userId, revokedBy, failAt)
    IN /\ lastCall.calls < MaxCalls
       /\ bans' = r.bans
       /\ users' = r.users
       /\ activityCount' = r.activity
       /\ lastCall' = StatusCall("unban", userId, Absent, failAt, r.result,
                                 FindActiveBan(bans, userId))
       /\ UNCHANGED <<now, nextBanId, scenario, modVars, flagVars, extVars>>

SuspendUserCall(userId, suspendedBy, hours, failAt) ==
    /\ lastCall.calls < MaxCalls
    /\ LET r == suspendUser(userId, suspendedBy, hours, failAt)
       IN /\ users' = r.users
          /\ activityCount' = r.activity
          /\ lastCall' = StatusCall("suspend", userId, Absent, failAt, r.result,
                                    FindActiveBan(bans, userId))
    /\ UNCHANGED <<now, bans, nextBanId, scenario, modVars, flagVars, extVars>>

CanUserPerformAction(userId, action, failAt) ==
    LET r == canUserPerformAction(userId, action, failAt)
    IN /\ lastCall.calls < MaxCalls
       /\ users' = r.users
       /\ lastCall' = StatusCall("check", userId, action, failAt, r.result,
                                 FindActiveBan(bans, userId))
       /\ UNCHANGED <<now, bans, activityCount, nextBanId, scenario,
                      modVars, flagVars, extVars>>

\* two hours pass
HoursPass ==
    /\ now < MaxTime * 2 * HourMs
    /\ now' = now + 2 * HourMs
    /\ UNCHANGED <<modVars, flagVars, banVars, extVars>>

\* the users the calls are about
StatusUsers == UserIds

\* a permanent ban and a temporary one of an hour
StatusBanArgs == {[type |-> "permanent"], [type |-> "temporary", duration |-> 1]}

NextStatus ==
    \/ \E u \in StatusUsers, a \in BanAdmins, args \in StatusBanArgs, failAt \in 0..3 :
         BanUserCall(u, a, args, failAt)
    \/ \E u \in StatusUsers, a \in BanAdmins, failAt \in 0..4 : UnbanUserCall(u, a, failAt)
    \/ \E u \in StatusUsers, a \in BanAdmins, hours \in SuspendHours, failAt \in 0..2 :
         SuspendUserCall(u, a, hours, failAt)
    \/ \E u \in StatusUsers, action \in CheckedActions, failAt \in 0..2 :
         CanUserPerformAction(u, action, failAt)
    \/ HoursPass

-----------------------------------------------------------------------------
(* Specifications *)

InitExt == InitRole /\ InitRate /\ InitScore /\ InitStats /\ InitSend /\ InitAna

Init == now = 0 /\ InitMod /\ InitFlag /\ InitBan /\ InitExt

\* the same before anybody has signed in
InitEmpty == now = 0 /\ InitMod /\ InitFlag /\ InitNoProfiles /\ InitExt

\* a chat in which nothing has been sent yet
InitNoMessages ==
    /\ now = 0 /\ InitMod /\ InitBan
    /\ messages = {}
    /\ flaggedMessages = [id \in MsgIds |-> EmptyObj]
    /\ autoPending = {}
    /\ review = [r \in Admins |-> Idle]
    /\ InitRole /\ InitRate /\ InitScore /\ InitStats /\ InitAna
    /\ messageData = [id \in MsgIds |-> EmptyObj]
    /\ send = [t \in Tabs |-> NotSending]

\* calls of moderateMessage on one MessageModerator
SpecMod == Init /\ [][NextMod]_vars

\* flagging, and reviewing of listed flags, by two admins
SpecFlag == Init /\ [][NextFlag]_vars

\* flagging and reviewing of any message id by two admins
SpecReviewApi == Init /\ [][NextReviewApi]_vars

\* banning and unbanning
SpecBan == Init /\ [][NextBan]_vars

\* signing in and changing roles
SpecRole == InitEmpty /\ [][NextRole]_vars

\* sends of two users through the client rate limiter
SpecRate == Init /\ [][NextRate]_vars

\* calls of calculateRiskScore
SpecScore == Init /\ [][NextScore]_vars

\* the admin panel's flag statistics
SpecStats == Init /\ [][NextStats]_vars

\* sends from two tabs
SpecSend == InitNoMessages /\ [][NextSend]_vars

\* a chat in which nothing has been sent yet, each user registered or not
InitAnalytics ==
    /\ now = 0 /\ InitMod
    /\ messages = {}
    /\ flaggedMessages = [id \in MsgIds |-> EmptyObj]
    /\ autoPending = {}
    /\ review = [r \in Admins |-> Idle]
    /\ bans = [b \in BanIds |-> EmptyObj]
    /\ users \in [UserIds -> {EmptyObj,
                              [status |-> "active", banHistory |-> EmptyObj,
                               email |-> "u@example.com"]}]
    /\ activityCount = 0
    /\ nextBanId = 1
    /\ scenario = [u \in UserIds |-> ScenarioStart]
    /\ lastCall = NoStatusCall
    /\ InitRole /\ InitRate /\ InitScore /\ InitStats /\ InitAna
    /\ messageData = [id \in MsgIds |-> EmptyObj]
    /\ send = [t \in Tabs |-> NotSending]

\* the same with u1 registered and u2 not
InitBehavior == InitAnalytics /\ Exists(users["u1"]) /\ ~Exists(users["u2"])

\* sending and analyzeUserBehavior
SpecBehavior == InitBehavior /\ [][NextBehavior]_vars

\* analyzeModerationEffectiveness on the flags it may read
SpecEffect == Init /\ [][NextEffect]_vars

\* sending and generateReport
SpecReport == InitAnalytics /\ [][NextReport]_vars

\* an empty chat with room for RatioIds, u1 signed up
InitRatio ==
    /\ now = 0 /\ InitMod /\ InitBan
    /\ messages = {}
    /\ flaggedMessages = [id \in RatioIds |-> EmptyObj]
    /\ autoPending = {}
    /\ review = [r \in Admins |-> Idle]
    /\ InitRole /\ InitRate /\ InitScore /\ InitStats /\ InitAna
    /\ messageData = [id \in RatioIds |-> EmptyObj]
    /\ send = [t \in Tabs |-> NotSending]

SpecRatio == InitRatio /\ [][NextRatio]_vars

\* an empty chat with room for ServerIds
InitServer ==
    /\ now = 0 /\ InitMod /\ InitBan
    /\ messages = {}
    /\ flaggedMessages = [id \in ServerIds |-> EmptyObj]
    /\ autoPending = {}
    /\ review = [r \in Admins |-> Idle]
    /\ InitRole /\ InitRate /\ InitScore /\ InitStats /\ InitAna
    /\ messageData = [id \in ServerIds |-> EmptyObj]
    /\ send = [t \in Tabs |-> NotSending]

SpecServer == InitServer /\ [][NextServer]_vars

\* the admin panel's subscription while messages are sent and deleted
SpecMonitor == InitNoMessages /\ [][NextMonitor]_vars

\* incrementMessageCount called from two tabs
SpecCount == InitNoMessages /\ [][NextCount]_vars

\* the status calls on two signed-up users
InitSignedUp == now = 0 /\ InitMod /\ InitFlag /\ InitStatus /\ InitExt

SpecStatus == InitSignedUp /\ [][NextStatus]_vars


-----------------------------------------------------------------------------
(* Claims about moderateMessage, checked under SpecMod *)

\* C1: a text that matches a severe-profanity word or a harassment pattern
\* is answered with shouldDelete = true and severity high, whatever other
\* rules it matches as well.
C1_SevereOrHarassmentAutoDeletes ==
    (Scan[text].severe \/ Scan[text].harassment)
        => verdict.shouldDelete = TRUE /\ verdict.severity = "high"

\* a harassment text that also holds a moderate-profanity word and matches a
\* spam pattern has been moderated
C1_Witness ==
    /\ Scan[text].harassment /\ Scan[text].moderate /\ Scan[text].spamPlain
    /\ verdict.shouldDelete = TRUE

\* the text matches one of the five SPAM_PATTERNS somewhere
MatchesSpam(t) == Scan[t].spamPlain \/ Scan[t].urls # {} \/ Scan[t].digits # {}

\* the verdict of the earliest rule of the fixed order that the text matches
FirstMatchVerdict(t) ==
    IF Scan[t].severe THEN Verdict(TRUE, TRUE, "profanity", "high")
    ELSE IF Scan[t].harassment THEN Verdict(TRUE, TRUE, "harassment", "high")
    ELSE IF Scan[t].moderate THEN Verdict(TRUE, FALSE, "profanity", "medium")
    ELSE IF Scan[t].mild THEN Verdict(TRUE, FALSE, "profanity", "low")
    ELSE IF MatchesSpam(t) THEN Verdict(TRUE, FALSE, "spam", "medium")
    ELSE IF Len(t) > LengthCeiling THEN Verdict(TRUE, FALSE, "inappropriate", "low")
    ELSE Verdict(FALSE, FALSE, Absent, Absent)

\* C2: the verdict, reason and severity of every call are those of the
\* earliest rule the text matches in the order severe, harassment, moderate,
\* mild, spam, length, allow.
C2_FirstMatchWins == verdict = FirstMatchVerdict(text)

\* C3: moderateMessage is pure: every call returns what a call with the same
\* text returns on a fresh instance, whatever calls came before.
C3_Pure == verdict = moderateMessage(text, 0, 0).result

-----------------------------------------------------------------------------
(* Claims about the flag store, checked under SpecFlag; C7 under          *)
(* SpecReviewApi                                                         *)

\* C4: every flag record with reviewed = false has no action, and every
\* record with autoFlagged = false has flaggedBy.
C4_FlagRecordInvariant ==
    \A id \in MsgIds :
        LET rec == flaggedMessages[id]
        IN /\ (Has(rec, "reviewed") /\ rec.reviewed = FALSE) => ~Has(rec, "action")
           /\ (Has(rec, "autoFlagged") /\ rec.autoFlagged = FALSE) => Has(rec, "flaggedBy")

\* C5: once a flag record is reviewed it stays reviewed, and its action,
\* reviewedBy and reviewedAt never change again.
C5_ReviewedOnce ==
    [][ \A id \in MsgIds :
          (Has(flaggedMessages[id], "reviewed") /\ flaggedMessages[id].reviewed)
            => /\ Has(flaggedMessages'[id], "reviewed") /\ flaggedMessages'[id].reviewed
               /\ flaggedMessages'[id].action = flaggedMessages[id].action
               /\ flaggedMessages'[id].reviewedBy = flaggedMessages[id].reviewedBy
               /\ flaggedMessages'[id].reviewedAt = flaggedMessages[id].reviewedAt ]_vars

\* C6: when reviewFlaggedMessage(id, reviewer, 'deleted') has returned true,
\* messages/{id} is absent.
C6_DeletedReviewRemovesMessage ==
    \A r \in Admins :
        (review[r].pc = "done" /\ review[r].action = "deleted" /\ review[r].result)
            => review[r].id \notin messages

\* C7: reviewFlaggedMessage on an id without a flag record does not return
\* true, creates no flag record and does not delete the message.
C7_ReviewOfUnflaggedFails ==
    \A r \in Admins :
        (review[r].pc = "done" /\ ~review[r].hadFlag)
            => /\ ~review[r].result
               /\ ~(Has(flaggedMessages[review[r].id], "reviewedBy")
                    /\ flaggedMessages[review[r].id].reviewedBy = r)
               /\ review[r].hadMessage => review[r].id \in messages

\* C8: of two reviewFlaggedMessage calls that overlap on one message id with
\* different actions, at most one returns true.
C8_OneConcurrentReviewSucceeds ==
    \A r1, r2 \in Admins :
        ( /\ r1 # r2
          /\ review[r1].pc = "done" /\ review[r2].pc = "done"
          /\ review[r1].id = review[r2].id
          /\ review[r1].action # review[r2].action
          /\ review[r1].overlap \/ review[r2].overlap )
            => ~(review[r1].result /\ review[r2].result)

-----------------------------------------------------------------------------
(* Claims about bans, checked under SpecBan *)

BansOf(u) == {b \in BanIds : Exists(bans[b]) /\ bans[b].userId = u}

\* C9: for a user without ban records, banUser(permanent) and then unbanUser,
\* both returning true, leave exactly one ban record of the user, with
\* isActive = false, and status 'active'; a second unbanUser then returns
\* false and changes nothing in the store.
C9_BanUnbanUnban ==
    \A u \in UserIds :
        /\ scenario[u].step \in {2, 3}
             => /\ Cardinality(BansOf(u)) = 1
                /\ \A b \in BansOf(u) : bans[b].isActive = FALSE
                /\ users[u].status = "active"
        /\ scenario[u].step = 3 => ~scenario[u].result /\ ~scenario[u].changed

\* the second unbanUser of the sequence has returned
C9_Witness ==
    \E u \in UserIds :
        /\ scenario[u].step = 3
        /\ Cardinality(BansOf(u)) = 1
        /\ users[u].status = "active"

\* C10: every user has at most one ban record with isActive = true.
C10_AtMostOneActiveBan ==
    \A u \in UserIds : Cardinality({b \in BansOf(u) : bans[b].isActive}) <= 1

\* C20: a stored ban record has no endDate exactly when its type is
\* 'permanent'.
C20_EndDateIffPermanent ==
    \A b \in BanIds :
        Exists(bans[b]) => (~Has(bans[b], "endDate") <=> bans[b].type = "permanent")

-----------------------------------------------------------------------------
(* Claims about roles, checked under SpecRole *)

\* C11: every stored profile that holds a role or permissions holds both,
\* and its permissions are rolePermissions[role].
C11_PermissionsMatchRole ==
    \A u \in UserIds :
        (Has(users[u], "role") \/ Has(users[u], "permissions"))
            => /\ Has(users[u], "role") /\ Has(users[u], "permissions")
               /\ users[u].permissions = rolePermissions[users[u].role]

\* a profile created by initializeUser has been made moderator by
\* updateUserRole
C11_Witness ==
    \E u \in UserIds :
        /\ Has(users[u], "createdAt")
        /\ Has(users[u], "role") /\ users[u].role = "moderator"

-----------------------------------------------------------------------------
(* Claims about the client rate limiter, checked under SpecRate *)

\* the accepted calls of user u, among the first n, made in [t, t + timeWindow)
AcceptedIn(u, n, t) ==
    {i \in 1..n : accepted[u][i] >= t /\ accepted[u][i] < t + timeWindow}

\* C12: for every user, at most maxMessages calls return isValid = true in
\* any window of timeWindow milliseconds; the stored timestamps of a user
\* are those of accepted calls only; and a call is accepted exactly when
\* fewer than maxMessages earlier calls of the same user were accepted in
\* the window that ends at the call.
C12_RateLimit ==
    /\ \A u \in UserIds : \A i \in DOMAIN accepted[u] :
         Cardinality(AcceptedIn(u, Len(accepted[u]), accepted[u][i])) <= maxMessages
    /\ \A u \in UserIds :
         userMessageTimes[u] # NoTimes
            => \A t \in {userMessageTimes[u][i] : i \in DOMAIN userMessageTimes[u]} :
                 Cardinality({i \in DOMAIN userMessageTimes[u] : userMessageTimes[u][i] = t})
                    <= Cardinality({i \in DOMAIN accepted[u] : accepted[u][i] = t})
    /\ lastRate.userId # Absent
         => (lastRate.isValid <=>
               Cardinality(AcceptedIn(lastRate.userId, lastRate.before,
                                      lastRate.at - timeWindow + 1)) < maxMessages)

\* a user with ten accepted calls was rejected at a later time, while the
\* window still held them, and another user had been accepted meanwhile
C12_Witness ==
    \E u, v \in UserIds :
        /\ u # v
        /\ Len(accepted[u]) = maxMessages /\ accepted[v] # <<>>
        /\ lastRate.userId = u /\ ~lastRate.isValid /\ lastRate.at > 0

-----------------------------------------------------------------------------
(* Claims about the risk score, checked under SpecScore *)

\* m2 is m1 with one signal moved towards risk: more messages per hour, a
\* higher flagged ratio, a lower mean sentiment, a shorter response time or
\* a shorter message length, the other four fields the same
MoreInOneSignal(m1, m2) ==
    /\ DOMAIN m1 = DOMAIN m2
    /\ \E k \in DOMAIN m1 :
         /\ \A j \in DOMAIN m1 \ {k} : m1[j] = m2[j]
         /\ CASE k \in {"messagesPerHour", "flaggedMessageRatio"} -> m2[k] >= m1[k]
              [] k \in {"responseTimeAvg", "averageMessageLength"} -> m2[k] <= m1[k]
              [] k = "sentimentTrend" ->
                   /\ Len(m1[k]) > 0 /\ Len(m2[k]) > 0
                   /\ SumSeq(m2[k]) * Len(m1[k]) <= SumSeq(m1[k]) * Len(m2[k])

\* C13: the risk score is within 0..100 and does not decrease when one
\* signal moves towards risk with the other four held fixed.
C13_Monotone ==
    /\ riskScore \in 0..100
    /\ \A m2 \in MetricsInputs :
         MoreInOneSignal(metrics, m2) => calculateRiskScore(m2) >= riskScore

\* the sum of the weights of the conditions that hold for a record
WeightSum(m) ==
    (IF Has(m, "messagesPerHour") /\ m.messagesPerHour > 10 THEN 20 ELSE 0)
    + (IF Has(m, "flaggedMessageRatio") /\ m.flaggedMessageRatio > 10 THEN 30 ELSE 0)
    + (IF NegativeTrend(m) THEN 25 ELSE 0)
    + (IF Has(m, "responseTimeAvg") /\ m.responseTimeAvg < 5000 THEN 15 ELSE 0)
    + (IF Has(m, "averageMessageLength") /\ m.averageMessageLength < 10 THEN 10 ELSE 0)

\* C14: the risk score is min(100, sum of the weights of the conditions
\* that hold), also for a responseTimeAvg or averageMessageLength of 0.
C14_WeightedSum ==
    riskScore = IF WeightSum(metrics) < 100 THEN WeightSum(metrics) ELSE 100

-----------------------------------------------------------------------------
(* Claims about the flag statistics, checked under SpecStats *)

\* C15: unreviewed plus the number of reviewed records is total, and the
\* three bySeverity counts add up to unreviewed.
C15_StatsAddUp ==
    /\ stats.unreviewed
         + Count(flagList, LAMBDA msg : Has(msg, "reviewed") /\ msg.reviewed) = stats.total
    /\ stats.bySeverity.low + stats.bySeverity.medium + stats.bySeverity.high
         = stats.unreviewed

\* stats of a list with a reviewed and an unreviewed record
C15_Witness ==
    /\ stats.total = 2 /\ stats.unreviewed = 1
    /\ \E i \in DOMAIN flagList : Has(flagList[i], "severity") /\ ~NotReviewed(flagList[i])

-----------------------------------------------------------------------------
(* Claims about sending, checked under SpecSend *)

\* C19: a send whose message was pushed ends as sent, with the message in
\* the store and, for a verdict with shouldFlag, flagMessage called,
\* whether or not the writes of incrementMessageCount and logActivity
\* failed.
C19_SecondaryFailuresSwallowed ==
    \A t \in Tabs :
        (send[t].pc = "done" /\ send[t].pushed)
            => /\ send[t].outcome = "sent"
               /\ send[t].id \in messages
               /\ send[t].verdict.shouldFlag => send[t].flagAttempted

\* a send to be flagged has ended after the counter write and the activity
\* write both failed
C19_Witness ==
    \E t \in Tabs :
        /\ send[t].pc = "done" /\ send[t].pushed
        /\ send[t].countFailed /\ send[t].logFailed
        /\ send[t].verdict.shouldFlag /\ send[t].flagAttempted

\* C23: handleSendMessage never gets to its push with a verdict that has
\* shouldDelete, and the submit of such a message writes no message, no
\* message count, no activity entry and no flag record.
C23_DeletedWritesNothing ==
    /\ [](\A t \in Tabs : send[t].pc # "idle" => ~send[t].verdict.shouldDelete)
    /\ [][lastRate' # lastRate /\ lastRate'.refused =>
            UNCHANGED <<messages, messageData, users, activityCount, flaggedMessages,
                        autoPending>>]_vars

\* a message passed the rate limiter and was refused for its verdict
C23_Witness ==
    /\ lastRate.refused /\ lastRate.isValid
    /\ messages = {}

\* the calls of incrementMessageCount for a user that returned after their
\* write resolved
Incremented(userId) ==
    {t \in Tabs : send[t].pc = "log" /\ send[t].userId = userId /\ ~send[t].countFailed}

\* C27: once the calls of incrementMessageCount for a user have returned,
\* the user's messageCount has grown by the number of those calls.
C27_NoLostIncrement ==
    \A u \in UserIds :
        (\A t \in Tabs : send[t].pc \in {"idle", "log"})
            => CurrentCount(users[u]) = Cardinality(Incremented(u))

\* C28: when no reviewFlaggedMessage call is in flight, a reviewed message
\* is gone from messages/ exactly when the stored action of its flag record
\* is 'deleted'.
C28_RemovedIffDeleted ==
    (\A r \in Admins : review[r].pc \in {"idle", "done"}) =>
        \A id \in MsgIds :
            Has(flaggedMessages[id], "action") =>
                (id \notin messages <=> flaggedMessages[id].action = "deleted")

\* C29: after every snapshot the subscription delivered, getMessages() holds
\* exactly the messages of that snapshot, ordered by timestamp, and the
\* stats callback was invoked for it; for a snapshot without a value
\* getMessages() is empty.
C29_MessagesFollowSnapshot ==
    chatAdmin.delivered =>
        /\ chatAdmin.messages = ByTimestamp(chatAdmin.snapshot)
        /\ chatAdmin.invoked

\* C30: the flaggedMessageRatio analyzeUserBehavior returns (in hundredths)
\* lies between 0 and 1.
C30_RatioWithinUnit ==
    analysis.called /\ Has(analysis.value, "flaggedMessageRatio") =>
        /\ analysis.value.flaggedMessageRatio >= 0
        /\ analysis.value.flaggedMessageRatio <= 100

\* C24: a sendMessage call is refused by the rate limiter exactly when the
\* user has already completed maxRequests sends in the window.
C24_TenPerWindow ==
    \A c \in Callers :
        serverCall[c].pc = "done" =>
            (serverCall[c].result = "rateLimited"
                <=> serverCall[c].sentBefore >= maxRequests)

\* C17: a generateReport('custom', ...) call fails for its dates exactly when
\* startDate or endDate is not supplied (0, the epoch, is a supplied value),
\* and a call that fails so writes nothing under analyticsReports.
C17_CustomNeedsBothDates ==
    report.type = "custom" =>
        /\ report.error = "dates"
             <=> (~Has(report.args, "startDate") \/ ~Has(report.args, "endDate"))
        /\ report.error = "dates" => Len(reports) = report.written

\* the rules whose condition is computed from the messages of the window
VolumeRules == {"engagement", "moderationLoad", "highRisk", "sentiment"}

\* C18: a daily report on a store without messages has totalMessages 0, no
\* topUsers and no insight or recommendation of a volume-dependent rule,
\* however many users are registered, and fails only when the store does.
C18_EmptyStoreReport ==
    report.type = "daily" /\ messages = {} =>
        /\ report.outcome = "threw" => report.error \in {"read", "write"}
        /\ report.outcome = "returned" =>
              /\ report.chatAnalytics.totalMessages = 0
              /\ report.chatAnalytics.topUsers = {}
              /\ \A i \in 1..Len(report.insights) : report.insights[i] \notin VolumeRules
              /\ \A i \in 1..Len(report.recommendations) :
                    report.recommendations[i] \notin VolumeRules

\* the value is a metrics record with every count, average and ratio 0
Zeroed(value) ==
    /\ Exists(value)
    /\ value.totalMessages = 0
    /\ value.averageMessageLength = 0
    /\ value.messagesPerHour = 0
    /\ value.sentimentTrend = <<>>
    /\ value.flaggedMessageRatio = 0
    /\ value.responseTimeAvg = 0
    /\ value.riskScore = 0

\* C16 as stated: analyzeUserBehavior for a user without messages in the
\* window returns a zeroed record with riskScore 0 and does not throw,
\* with or without a profile and whether or not the reads succeed.
C16_ZeroedWhatever ==
    analysis.called /\ analysis.inWindow = 0 =>
        ~analysis.threw /\ Zeroed(analysis.value)

\* C16: analyzeUserBehavior for a user without messages in the window never
\* throws; it returns a zeroed record with riskScore 0 when users/{userId}
\* exists and the reads succeed, and null otherwise.
C16_ZeroedOrNull ==
    analysis.called /\ analysis.inWindow = 0 =>
        /\ ~analysis.threw
        /\ IF analysis.ok /\ analysis.profile
           THEN Zeroed(analysis.value)
           ELSE ~Exists(analysis.value)

\* the analysis of a registered user whose only message lies outside the
\* window returned the zeroed record
C16_Witness ==
    /\ analysis.called
    /\ analysis.inWindow = 0
    /\ analysis.ok /\ analysis.profile
    /\ \E id \in messages : messageData[id].userId = analysis.userId
    /\ Zeroed(analysis.value)

\* the flags of the latest analyzeModerationEffectiveness call that were
\* reviewed, inside its window, with the action a
ReviewedAs(a) ==
    Count(effectiveness.flags,
          LAMBDA f : /\ Has(f, "flaggedAt") /\ After(f.flaggedAt, effectiveness.days)
                     /\ Has(f, "reviewed") /\ f.reviewed
                     /\ Has(f, "action") /\ f.action = a)

\* C21: accuracyRate is deleted / (deleted + approved) and falsePositiveRate
\* is approved / (deleted + approved), as percentages over the reviewed flags
\* of the window, so the two sum to 100 whenever one of these is reviewed,
\* flags reviewed as 'edited' or not.
C21_RatesOverDecided ==
    LET deleted == ReviewedAs("deleted")
        approved == ReviewedAs("approved")
        accuracy == effectiveness.value.accuracyRate
        falsePositive == effectiveness.value.falsePositiveRate
    IN effectiveness.called /\ deleted + approved > 0 =>
          /\ accuracy.num * (deleted + approved) = 100 * deleted * accuracy.den
          /\ falsePositive.num * (deleted + approved) = 100 * approved * falsePositive.den
          /\ accuracy.num * falsePositive.den + falsePositive.num * accuracy.den
                = 100 * accuracy.den * falsePositive.den

\* C22: when banUser's write of bans/{banId} succeeds and its write of
\* users/{userId} fails, banUser returns false, the ban record stays stored
\* with isActive = true and users/{userId} is as it was.
C22_NoRollback ==
    lastCall.op = "ban" /\ lastCall.failAt = 2 =>
        /\ ~lastCall.result
        /\ Exists(bans[lastCall.banId])
        /\ bans[lastCall.banId].isActive
        /\ bans[lastCall.banId].userId = lastCall.userId
        /\ users[lastCall.userId] = lastCall.userBefore

\* such a call has ended for a user who was not banned
C22_Witness ==
    /\ lastCall.op = "ban" /\ lastCall.failAt = 2
    /\ bans[lastCall.banId].isActive
    /\ users[lastCall.userId].status = "active"

\* C26: after every completed banUser or unbanUser call, every ban stored
\* under bans/ for the user has a copy under users/{uid}/banHistory with the
\* same isActive.
C26_HistoryAgrees ==
    lastCall.op \in {"ban", "unban"} /\ lastCall.result =>
        \A b \in BanIds :
            Exists(bans[b]) /\ bans[b].userId = lastCall.userId =>
                /\ Has(users[lastCall.userId].banHistory, b)
                /\ users[lastCall.userId].banHistory[b].isActive = bans[b].isActive

\* C25: canUserPerformAction, asked about a user who has an active ban,
\* answers false and does not make the user's status 'active'.
C25_BannedNeverGranted ==
    lastCall.op = "check" /\ lastCall.banId # 0 =>
        /\ ~lastCall.result
        /\ users[lastCall.userId].status = "active" =>
              lastCall.userBefore.status = "active"

====
